---- MODULE Spec2Model ----
(***************************************************************************)
(* Model of the NFT gift planner's external-data resolution pipeline       *)
(* (src/src/App.jsx): the session-cached retrying JSON client safeFetch,   *)
(* loadModelsAndPatterns, the relay chain of fetchNftDetails, the CellModal *)
(* handlers and the gift identifier index built by loadInitialData.        *)
(*                                                                         *)
(* Strings whose characters matter (gift names, endpoints, storage keys)   *)
(* are sequences of one-character strings.  JavaScript values are records  *)
(* [t, s, v]: a type tag, a string payload and the child values.           *)
(***************************************************************************)
EXTENDS Integers, Sequences, FiniteSets, TLC

VARIABLES
    \* ---- catalog client (safeFetch, loadModelsAndPatterns) ----
    gifts,            \* App state gifts: the catalog's gift names
    sessionStorage,   \* window.sessionStorage: key -> stored text
    modelsCache,      \* App state modelsCache: gift -> list
    patternsCache,    \* App state patternsCache: gift -> list
    models,           \* CellModal state models
    patterns,         \* CellModal state patterns
    load,             \* the running loadModelsAndPatterns invocations
    succeeded,        \* history: endpoints with a request that succeeded and was cached
    storedVal,        \* history: key -> the value `data` of the call that stored the key
    storeSrc,         \* history: key -> where the payload last written came from
    modelsSrc,        \* history: gift -> where the modelsCache entry came from
    patternsSrc       \* history: gift -> where the patternsCache entry came from

    \* ---- page relay chain (one fetchNftDetails invocation) ----
VARIABLES
    relayPc,          \* "idle", "req" (a relay request is outstanding) or "done"
    relayIdx,         \* position in proxies of the relay being requested
    html,             \* the local variable html
    requested,        \* history: the relays requested so far, in order
    answers,          \* history: what each requested relay came back with
    parsedText,       \* history: the text handed to parseNftPageContent
    details           \* the value fetchNftDetails returned

fetchVars == <<gifts, sessionStorage, modelsCache, patternsCache, models, patterns, load,
               succeeded, storedVal, storeSrc, modelsSrc, patternsSrc>>

    \* ---- gift identifier index ----
VARIABLES
    namesData,        \* what safeFetch('/names', {}) returned
    idsData,          \* what safeFetch('/ids', {}) returns
    nameToId,         \* history: the name -> id object that was indexed
    giftIds,          \* App state giftIds
    loading,          \* App state loading
    lookedUp          \* the last getGiftImageUrl lookup: gift and id found

relayVars == <<relayPc, relayIdx, html, requested, answers, parsedText, details>>

nameVars == <<namesData, idsData, nameToId, giftIds, loading, lookedUp>>

    \* ---- CellModal ----
VARIABLES
    modalIsOpen,      \* App state modalIsOpen
    modal,            \* CellModal state: link, gift, model, backdrop, pattern,
                      \* totalIssued, isInitialLoad, isParsingLink, parseStatus
    page,             \* the handlers waiting for fetchNftDetails (or, in handleLink,
                      \* for loadModelsAndPatterns before it)
    clicks            \* history: the number of user events so far

modalVars == <<modalIsOpen, modal, page, clicks>>

    \* ---- loadInitialData ----
VARIABLES
    backdrops,        \* App state backdrops
    boot              \* the loadInitialData invocation: where it stands, the
                      \* safeFetch call it awaits and, as history, the
                      \* endpoints it has called safeFetch for

bootVars == <<backdrops, boot>>

    \* ---- pure functions applied to a chosen input ----
VARIABLES
    arg,              \* the input
    result            \* the value returned for it, once the function has run

pureVars == <<arg, result>>

    \* ---- the grid ----
VARIABLES
    rows,             \* App state rows
    grid,             \* App state grid: the rows of cells, first row first
    animationMode,    \* App state animationMode
    currentCell       \* App state currentCell, row and col counted from 0

gridVars == <<rows, grid, animationMode, currentCell>>

vars == <<fetchVars, relayVars, nameVars, modalVars, bootVars, pureVars, gridVars>>

-----------------------------------------------------------------------------
(* Characters and strings *)

LowerSeq == <<"a","b","c","d","e","f","g","h","i","j","k","l","m",
              "n","o","p","q","r","s","t","u","v","w","x","y","z">>
UpperSeq == <<"A","B","C","D","E","F","G","H","I","J","K","L","M",
              "N","O","P","Q","R","S","T","U","V","W","X","Y","Z">>
DigitSeq == <<"0","1","2","3","4","5","6","7","8","9">>

Range(f) == {f[i] : i \in DOMAIN f}

IsLower(c) == c \in Range(LowerSeq)
IsUpper(c) == c \in Range(UpperSeq)
IsDigit(c) == c \in Range(DigitSeq)

\* One character of String.prototype.toLowerCase.
ToLowerChar(c) ==
    IF IsUpper(c) THEN LowerSeq[CHOOSE i \in DOMAIN UpperSeq : UpperSeq[i] = c] ELSE c

toLowerCase(str) == [i \in DOMAIN str |-> ToLowerChar(str[i])]

\* str.replace(/ /g, by): every space replaced by the one character `by`.
ReplaceSpaces(str, by) == [i \in DOMAIN str |-> IF str[i] = " " THEN by ELSE str[i]]

\* normalizeGiftName: name.toLowerCase().replace(/ /g, '-')
normalizeGiftName(name) == ReplaceSpaces(toLowerCase(name), "-")

-----------------------------------------------------------------------------
(* JavaScript values and JSON *)

JsVal(t, s, v) == [t |-> t, s |-> s, v |-> v]
Undefined   == JsVal("undefined", "", <<>>)
Null        == JsVal("null", "", <<>>)
Infinity    == JsVal("number", "Infinity", <<>>)
Item(name)  == JsVal("object", name, <<>>)     \* {name: ..., rarityPermille: ...}
Arr(items)  == JsVal("array", "", items)
Dict(entries) == JsVal("dict", "", entries)   \* a plain object: its entries [k, v]

\* JavaScript truthiness on these values: undefined and null are falsy, every
\* array and object (the empty array too) and Infinity are truthy.
Truthy(x) == x.t \notin {"undefined", "null"}

\* Response bodies the catalog API can deliver.  "<html>" is not JSON; the
\* literal 1e999 is valid JSON that overflows to Infinity when parsed.
Bodies == {"[{\"name\":\"m1\"}]", "[1e999]", "<html>"}

\* Inside a payload object a string value is the sequence of its characters
\* and the number 7 is NumberSeven, which no string equals.
NumberSeven == <<"<number>", "7">>
IsString(value) == value = <<>> \/ value[1] # "<number>"

\* Payload objects of the catalog API: name -> id, id -> name with one value
\* that is not a string, and a name with a number for its id.
NamesObject  == Dict(<< [k |-> <<"A", " ", "a">>, v |-> <<"1">>] >>)
IdsObject    == Dict(<< [k |-> <<"1">>, v |-> <<"A", " ", "a">>],
                        [k |-> <<"2">>, v |-> NumberSeven] >>)
NumberObject == Dict(<< [k |-> <<"B">>, v |-> NumberSeven] >>)

\* The texts JSON.parse accepts, and its result (response.json() is the same parse).
JsonTexts == {"[]", "[{\"name\":\"m1\"}]", "[1e999]", "[null]", "null", "{}",
              "{\"A a\":\"1\"}", "{\"1\":\"A a\",\"2\":7}", "{\"B\":7}"}
Parseable(text) == text \in JsonTexts
ParseJson(text) ==
    CASE text = "[]"                      -> Arr(<<>>)
      [] text = "[{\"name\":\"m1\"}]"     -> Arr(<<Item("m1")>>)
      [] text = "[1e999]"                 -> Arr(<<Infinity>>)
      [] text = "[null]"                  -> Arr(<<Null>>)
      [] text = "null"                    -> Null
      [] text = "{}"                      -> Dict(<<>>)
      [] text = "{\"A a\":\"1\"}"         -> NamesObject
      [] text = "{\"1\":\"A a\",\"2\":7}" -> IdsObject
      [] text = "{\"B\":7}"               -> NumberObject

\* JSON.stringify: a non-finite number is written as null.
Stringify(x) ==
    CASE x = Arr(<<>>)              -> "[]"
      [] x = Arr(<<Item("m1")>>)    -> "[{\"name\":\"m1\"}]"
      [] x = Arr(<<Infinity>>)      -> "[null]"
      [] x = Arr(<<Null>>)          -> "[null]"
      [] x = Null                   -> "null"
      [] x = Dict(<<>>)             -> "{}"
      [] x = NamesObject            -> "{\"A a\":\"1\"}"
      [] x = IdsObject              -> "{\"1\":\"A a\",\"2\":7}"
      [] x = NumberObject           -> "{\"B\":7}"

-----------------------------------------------------------------------------
(* window.sessionStorage *)

NoItem == "<null>"    \* getItem's null for a key that is not stored

getItem(store, key) == IF key \in DOMAIN store THEN store[key] ELSE NoItem

setItem(store, key, text) ==
    [k \in DOMAIN store \cup {key} |-> IF k = key THEN text ELSE store[k]]

\* obj[key] of a plain object (undefined when absent) and {...obj, [key]: value}.
Lookup(obj, key) == IF key \in DOMAIN obj THEN obj[key] ELSE Undefined
Assign(obj, key, value) ==
    [k \in DOMAIN obj \cup {key} |-> IF k = key THEN value ELSE obj[k]]

-----------------------------------------------------------------------------
(* safeFetch *)

maxRetries == 3

BackoffDelayFlat(attempt) == 800
\* setTimeout(r, 800 * attempt)
BackoffDelay(attempt) == 800 * attempt

\* `/models/${norm}?sorted` and `/patterns/${norm}?sorted`
ModelsEndpoint(gift) ==
    <<"/","m","o","d","e","l","s","/">> \o normalizeGiftName(gift)
        \o <<"?","s","o","r","t","e","d">>
PatternsEndpoint(gift) ==
    <<"/","p","a","t","t","e","r","n","s","/">> \o normalizeGiftName(gift)
        \o <<"?","s","o","r","t","e","d">>

\* endpoint.replace(/[^a-zA-Z0-9]/g, '_')
CacheKey(endpoint) ==
    [i \in DOMAIN endpoint |->
        IF IsLower(endpoint[i]) \/ IsUpper(endpoint[i]) \/ IsDigit(endpoint[i])
        THEN endpoint[i] ELSE "_"]

\* `models_${selectedGift}` and `patterns_${selectedGift}`
ModelsKey(gift) == <<"m","o","d","e","l","s","_">> \o gift
PatternsKey(gift) == <<"p","a","t","t","e","r","n","s","_">> \o gift

-----------------------------------------------------------------------------
(* loadModelsAndPatterns and the safeFetch call it awaits *)

MaxLoads == 2                         \* loadModelsAndPatterns invocations in flight
Loads == 1..MaxLoads

NoRet == [val |-> Undefined, src |-> "none"]
IdleLoad == [pc |-> "idle", gift |-> <<>>, stage |-> "none", attempt |-> 0,
             ret |-> NoRet, snapP |-> Undefined, delays |-> <<>>, awaited |-> FALSE]

\* safeFetch's default and the fallback loadModelsAndPatterns passes: []
Fallback == Arr(<<>>)

EndpointOf(stage, gift) ==
    IF stage = "models" THEN ModelsEndpoint(gift) ELSE PatternsEndpoint(gift)

\* if (cached) return JSON.parse(cached): the empty string would be falsy.
CacheHit(cached) == cached # NoItem /\ cached # ""

\* safeFetch from its call to its first await: a cache hit returns the parsed
\* entry, a miss issues attempt 1.
SafeFetchEntry(gift, stage, snapP, awaited) ==
    LET Entry(cached) ==
            IF CacheHit(cached)
            THEN [pc |-> "ret", gift |-> gift, stage |-> stage, attempt |-> 0,
                  ret |-> [val |-> ParseJson(cached), src |-> "cache"],
                  snapP |-> snapP, delays |-> <<>>, awaited |-> awaited]
            ELSE [pc |-> "req", gift |-> gift, stage |-> stage, attempt |-> 1,
                  ret |-> NoRet, snapP |-> snapP, delays |-> <<>>, awaited |-> awaited]
    IN  \* the endpoint, its key and the stored item are each evaluated once
        CHOOSE entry \in {Entry(cached) : cached \in
                             {getItem(sessionStorage, key) : key \in
                                 {CacheKey(endpoint) : endpoint \in
                                     {EndpointOf(stage, gift)}}}} : TRUE

\* What a request can come back with: a rejected fetch, a non-ok status, or
\* an ok response with some body.
Responses == {[kind |-> "error", body |-> ""], [kind |-> "status", body |-> ""]}
             \cup {[kind |-> "ok", body |-> b] : b \in Bodies}

\* A state setter that is not called, and the state after an optional call.
NoSet == JsVal("noset", "", <<>>)
SetOr(current, update) == IF update = NoSet THEN current ELSE update

\* A finished invocation: an awaited one stays until its caller resumes.
FinishedLoad(gift, awaited) ==
    IF awaited THEN [IdleLoad EXCEPT !.pc = "done", !.gift = gift, !.awaited = TRUE]
    ELSE IdleLoad

\* The patterns half of loadModelsAndPatterns, which runs synchronously after
\* setModels: the new invocation record and the argument of setPatterns.
PatternsStage(gift, snapP, awaited) ==
    IF ~Truthy(snapP)
    THEN [load |-> SafeFetchEntry(gift, "patterns", snapP, awaited), patterns |-> NoSet]
    ELSE [load |-> FinishedLoad(gift, awaited), patterns |-> snapP]

\* loadModelsAndPatterns(selectedGift), up to its first await.  modelsCache and
\* patternsCache are the values of the render the calling handler was created in.
LoadStart(gift, awaited) ==
    LET snapM == Lookup(modelsCache, gift)
        snapP == Lookup(patternsCache, gift)
    IN  IF ~Truthy(snapM)
        THEN [load |-> SafeFetchEntry(gift, "models", snapP, awaited),
              models |-> NoSet, patterns |-> NoSet]
        ELSE [load |-> PatternsStage(gift, snapP, awaited).load,
              models |-> snapM,
              patterns |-> PatternsStage(gift, snapP, awaited).patterns]

\* Invocations are interchangeable: a new one takes the first free place.
FreeLoad(i) ==
    /\ load[i].pc = "idle"
    /\ \A j \in Loads : j < i => load[j].pc # "idle"

\* loadModelsAndPatterns called for a catalog gift (by the reset effect,
\* handleGiftChange or pasteCell), not awaited.
loadModelsAndPatterns(i, gift) ==
    /\ FreeLoad(i)
    /\ load' = [load EXCEPT ![i] = LoadStart(gift, FALSE).load]
    /\ models' = SetOr(models, LoadStart(gift, FALSE).models)
    /\ patterns' = SetOr(patterns, LoadStart(gift, FALSE).patterns)
    /\ UNCHANGED <<gifts, sessionStorage, modelsCache, patternsCache, succeeded,
                   storedVal, storeSrc, modelsSrc, patternsSrc>>

\* The awaited fetch settles: response.ok and response.json() decide between
\* the try body (store and return data) and the catch block.
FetchSettles(i, r) ==
    /\ load[i].pc = "req"
    /\ \E ep \in {EndpointOf(load[i].stage, load[i].gift)} : \E key \in {CacheKey(ep)} :
           IF r.kind = "ok" /\ Parseable(r.body)
           THEN LET data == ParseJson(r.body)
                IN  /\ sessionStorage' = setItem(sessionStorage, key, Stringify(data))
                    /\ load' = [load EXCEPT ![i].pc = "ret",
                                            ![i].ret = [val |-> data, src |-> "network"]]
                    /\ succeeded' = succeeded \cup {ep}
                    /\ storedVal' = Assign(storedVal, key, data)
                    /\ storeSrc' = Assign(storeSrc, key, "network")
           ELSE /\ IF load[i].attempt = maxRetries
                   THEN load' = [load EXCEPT ![i].pc = "ret",
                                             ![i].ret = [val |-> Fallback, src |-> "fallback"]]
                   ELSE load' = [load EXCEPT ![i].pc = "backoff",
                                             ![i].delays = Append(@, BackoffDelay(load[i].attempt))]
                /\ UNCHANGED <<sessionStorage, succeeded, storedVal, storeSrc>>
    /\ UNCHANGED <<gifts, modelsCache, patternsCache, models, patterns, modelsSrc, patternsSrc>>

\* The backoff timer fires: the loop's next iteration issues the next attempt.
BackoffElapsed(i) ==
    /\ load[i].pc = "backoff"
    /\ load' = [load EXCEPT ![i].pc = "req", ![i].attempt = @ + 1]
    /\ UNCHANGED <<gifts, sessionStorage, modelsCache, patternsCache, models, patterns,
                   succeeded, storedVal, storeSrc, modelsSrc, patternsSrc>>

\* loadModelsAndPatterns resumes with safeFetch's value.
LoadResumes(i) ==
    /\ load[i].pc = "ret"
    /\ LET gift == load[i].gift
           val  == load[i].ret.val
           src  == load[i].ret.src
       IN  IF load[i].stage = "models"
           THEN \E rest \in {PatternsStage(gift, load[i].snapP, load[i].awaited)} :
                \E modelsKey \in {ModelsKey(gift)} :
                /\ modelsCache' = Assign(modelsCache, gift, val)
                /\ sessionStorage' = setItem(sessionStorage, modelsKey, Stringify(val))
                /\ models' = val
                /\ storeSrc' = Assign(storeSrc, modelsKey, src)
                /\ modelsSrc' = Assign(modelsSrc, gift, src)
                /\ load' = [load EXCEPT ![i] = rest.load]
                /\ patterns' = SetOr(patterns, rest.patterns)
                /\ UNCHANGED <<patternsCache, patternsSrc>>
           ELSE \E patternsKey \in {PatternsKey(gift)} :
                /\ patternsCache' = Assign(patternsCache, gift, val)
                /\ sessionStorage' = setItem(sessionStorage, patternsKey, Stringify(val))
                /\ patterns' = val
                /\ storeSrc' = Assign(storeSrc, patternsKey, src)
                /\ patternsSrc' = Assign(patternsSrc, gift, src)
                /\ load' = [load EXCEPT ![i] = FinishedLoad(gift, load[i].awaited)]
                /\ UNCHANGED <<modelsCache, models, modelsSrc>>
    /\ UNCHANGED <<gifts, succeeded, storedVal>>

\* The session starts with nothing stored and nothing loaded.
EmptyFetch ==
    /\ sessionStorage = <<>>
    /\ modelsCache = <<>>
    /\ patternsCache = <<>>
    /\ models = Arr(<<>>)
    /\ patterns = Arr(<<>>)
    /\ load = [i \in Loads |-> IdleLoad]
    /\ succeeded = {}
    /\ storedVal = <<>>
    /\ storeSrc = <<>>
    /\ modelsSrc = <<>>
    /\ patternsSrc = <<>>

-----------------------------------------------------------------------------
(* fetchNftDetails: the relay chain *)

MIN_VALID_HTML_LENGTH == 100

proxiesAndOneMore == << "/api/proxy?url=",
                        "https://api.codetabs.com/v1/proxy?quest=",
                        "https://corsproxy.io/?",
                        "https://api.allorigins.win/get?url=",
                        "https://api.allorigins.win/raw?url=",
                        "https://thingproxy.freeboard.io/fetch/" >>
\* The relay URLs up to the percent-encoded target, in the order of the list.
proxies == << "/api/proxy?url=",
              "https://api.codetabs.com/v1/proxy?quest=",
              "https://corsproxy.io/?",
              "https://api.allorigins.win/get?url=",
              "https://api.allorigins.win/raw?url=" >>

\* proxyUrl.includes('allorigins.win/get'); the encoded target holds no '/'.
IsAlloriginsGet(proxyUrl) == proxyUrl = "https://api.allorigins.win/get?url="

\* A text is known by the relay that delivered it, by whether it is the whole
\* body or the contents field of the envelope, and by its length.
NullHtml == [by |-> 0, part |-> "null", len |-> 0]
Text(k, part, len) == [by |-> k, part |-> part, len |-> len]

\* Response bodies.  env says what JSON.parse makes of the body: "none" (not
\* JSON), "jsonnull" (the four characters null), "null" ({"contents": null})
\* or "text" ({"contents": "..."} with clen characters of contents).  Only the
\* envelope relay parses its body, so the other relays' bodies are told apart
\* by their length alone.
RawBodies == {[len |-> n, env |-> "none", clen |-> 0] : n \in {0, 100, 101}}
EnvelopeBodies ==
    {[len |-> 4, env |-> "jsonnull", clen |-> 0],
     [len |-> 17, env |-> "null", clen |-> 0]}
    \cup {[len |-> n + 15, env |-> "text", clen |-> n] : n \in {0, 100, 101}}

RelayBodies(k) ==
    IF IsAlloriginsGet(proxies[k]) THEN RawBodies \cup EnvelopeBodies ELSE RawBodies

NoBody == [len |-> 0, env |-> "none", clen |-> 0]
RelayResponses(k) ==
    {[kind |-> "error", body |-> NoBody], [kind |-> "status", body |-> NoBody]}
    \cup {[kind |-> "ok", body |-> b] : b \in RelayBodies(k)}

\* html = text
RawBody(k, body) == Text(k, "body", body.len)

\* The value assigned to html for an ok response of relay k:
\* try { html = JSON.parse(text).contents } catch { html = text } for the
\* envelope relay.  JSON.parse throws for a body that is not JSON and reading
\* .contents throws for the JSON value null.
Unwrap(k, body) ==
    IF IsAlloriginsGet(proxies[k])
    THEN CASE body.env = "text"     -> Text(k, "contents", body.clen)
           [] body.env = "null"     -> NullHtml
           [] body.env = "jsonnull" -> Text(k, "body", body.len)
           [] body.env = "none"     -> Text(k, "body", body.len)
    ELSE Text(k, "body", body.len)

\* !html
Falsy(text) == text = NullHtml \/ text.len = 0

AcceptsAny(text) == FALSE
\* if (html && html.length > MIN_VALID_HTML_LENGTH) break;
Accepts(text) == ~Falsy(text) /\ text.len > MIN_VALID_HTML_LENGTH

NoText == [by |-> 0, part |-> "none", len |-> 0]
NullDetails == [kind |-> "null", text |-> NoText]
\* parseNftPageContent returns a record for every string.
DetailsOf(text) == [kind |-> "details", text |-> text]

\* The value of html after relay k has come back with r.
HtmlAfter(k, r, before) == IF r.kind = "ok" THEN Unwrap(k, r.body) ELSE before

\* What fetchNftDetails returns once the loop is left with html = text.
ReturnFor(text) == IF Falsy(text) THEN NullDetails ELSE DetailsOf(text)

IdleRelay ==
    /\ relayPc = "idle"
    /\ relayIdx = 0
    /\ html = NullHtml
    /\ requested = <<>>
    /\ answers = <<>>
    /\ parsedText = NoText
    /\ details = NullDetails

\* fetchNftDetails is called: html = null and the first relay is requested.
fetchNftDetails ==
    /\ relayPc = "idle"
    /\ relayPc' = "req"
    /\ relayIdx' = 1
    /\ html' = NullHtml
    /\ requested' = <<1>>
    /\ UNCHANGED <<answers, parsedText, details>>

\* The outstanding relay request settles: a rejected fetch is caught, a non-ok
\* status is skipped, an ok body is assigned to html and ends the loop when it
\* is long enough; after the last relay the function returns.
RelaySettles(k, r) ==
    /\ relayPc = "req"
    /\ relayIdx = k
    /\ LET text == HtmlAfter(k, r, html)
           stop == r.kind = "ok" /\ Accepts(text)
       IN  /\ html' = text
           /\ answers' = Append(answers, r)
           /\ IF stop \/ k = Len(proxies)
              THEN /\ relayPc' = "done"
                   /\ details' = ReturnFor(text)
                   /\ parsedText' = IF Falsy(text) THEN NoText ELSE text
                   /\ UNCHANGED <<relayIdx, requested>>
              ELSE /\ relayIdx' = k + 1
                   /\ requested' = Append(requested, k + 1)
                   /\ UNCHANGED <<relayPc, details, parsedText>>

-----------------------------------------------------------------------------
(* The gift identifier index: loadInitialData and getGiftImageUrl *)

\* aggressiveNormalize: str.toLowerCase().replace(/[^a-z0-9]/g, '')
aggressiveNormalize(str) ==
    SelectSeq(toLowerCase(str), LAMBDA c : IsLower(c) \/ IsDigit(c))

\* str.replace(/ /g, '')
RemoveSpaces(str) == SelectSeq(str, LAMBDA c : c # " ")

\* The variants loadInitialData stores for a name, in order.
IndexVariants(name) ==
    << name,
       toLowerCase(name),
       normalizeGiftName(name),
       aggressiveNormalize(name),
       RemoveSpaces(name),
       ReplaceSpaces(toLowerCase(name), "_") >>

\* The variants getGiftImageUrl tries for a gift, in order.
LookupVariants(gift) ==
    << gift,
       toLowerCase(gift),
       normalizeGiftName(gift),
       aggressiveNormalize(gift),
       RemoveSpaces(gift),
       ReplaceSpaces(toLowerCase(gift), "_") >>

\* /^\d+$/.test(value)
IsDigits(value) == value # <<>> /\ \A i \in DOMAIN value : IsDigit(value[i])

\* typeof firstValue === 'string' && /^\d+$/.test(firstValue), for
\* firstValue = Object.values(namesData)[0]
looksLikeNameToId(payload) ==
    payload # <<>> /\ IsString(payload[1].v) /\ IsDigits(payload[1].v)

\* A plain object is the sequence of its entries [k, v] in the order
\* Object.entries lists them.  obj[key] = value: an existing key keeps its
\* place, a new key goes last (the keys here are never integer-like).
HasKey(obj, key) == \E i \in DOMAIN obj : obj[i].k = key

PutKeepFirst(obj, key, value) ==
    IF HasKey(obj, key) THEN obj ELSE Append(obj, [k |-> key, v |-> value])
\* obj[key] = value; the object expression is evaluated once.
Put(obj, key, value) ==
    LET Set(o) ==
            IF HasKey(o, key)
            THEN [i \in DOMAIN o |-> IF o[i].k = key THEN [k |-> key, v |-> value] ELSE o[i]]
            ELSE Append(o, [k |-> key, v |-> value])
    IN  CHOOSE r \in {Set(o) : o \in {obj}} : TRUE

Get(obj, key) == obj[CHOOSE i \in DOMAIN obj : obj[i].k = key].v

\* for (const [id, name] of Object.entries(idsData)) {
\*   if (typeof name !== 'string') continue; nameToId[name] = id }
RECURSIVE InvertIds(_, _)
InvertIds(entries, acc) ==
    IF entries = <<>> THEN acc
    ELSE IF ~IsString(Head(entries).v) THEN InvertIds(Tail(entries), acc)
    ELSE InvertIds(Tail(entries), Put(acc, Head(entries).v, Head(entries).k))

\* for (const variant of variants) normalizedNameToId[variant] = id
RECURSIVE StoreVariants(_, _, _)
StoreVariants(index, variants, id) ==
    IF variants = <<>> THEN index
    ELSE StoreVariants(Put(index, Head(variants), id), Tail(variants), id)

\* for (const [name, id] of Object.entries(nameToId)) { ... }
RECURSIVE BuildIndex(_, _)
BuildIndex(entries, index) ==
    IF entries = <<>> THEN index
    ELSE BuildIndex(Tail(entries),
                    StoreVariants(index, IndexVariants(Head(entries).k), Head(entries).v))

\* The name -> id object loadInitialData indexes: /names itself when it looks
\* like name -> id, the inverted /ids otherwise.
NameToId(names, ids) ==
    IF looksLikeNameToId(names) THEN names ELSE InvertIds(ids, <<>>)

NoId == <<"<", "n", "u", "l", "l", ">">>

\* getGiftImageUrl's loop: the id under the first variant whose entry is truthy.
GiftIdFor(index, gift) ==
    LET variants == LookupVariants(gift)
        hits == {i \in DOMAIN variants :
                    HasKey(index, variants[i]) /\ Get(index, variants[i]) # <<>>}
    IN  IF hits = {} THEN NoId
        ELSE Get(index, variants[CHOOSE i \in hits : \A j \in hits : i <= j])

\* The first three variants only.
FirstThreeVariants(giftName) ==
    << giftName, toLowerCase(giftName), normalizeGiftName(giftName) >>
\* const variants = [giftName, giftName.toLowerCase(),
\*                   normalizeGiftName(giftName), aggressiveNormalize(giftName)]
AnimationVariants(giftName) ==
    << giftName, toLowerCase(giftName), normalizeGiftName(giftName),
       aggressiveNormalize(giftName) >>

\* getGiftIdForAnimation: if (!giftName) return null; the first variant whose
\* entry in giftIds is truthy gives the identifier, null when there is none.
getGiftIdForAnimation(index, giftName) ==
    IF giftName = <<>> THEN NoId
    ELSE LET variants == AnimationVariants(giftName)
             hits == {i \in DOMAIN variants :
                         HasKey(index, variants[i]) /\ Get(index, variants[i]) # <<>>}
         IN  IF hits = {} THEN NoId
             ELSE Get(index, variants[CHOOSE i \in hits : \A j \in hits : i <= j])

MaxNames == 2                         \* names in the catalog

\* Catalog names: a two-word name and the names that are its variants.
CatalogNames == { <<"A"," ","a">>, <<"a"," ","a">>, <<"a","-","a">>, <<"a","a">>,
                  <<"A","a">>, <<"a","_","a">>, <<"B">> }
CatalogIds == { <<"1">>, <<"2">>, <<"3">> }

\* The catalogs: up to MaxNames entries with distinct names and distinct ids.
Catalogs ==
    UNION { { c \in [1..n -> [k : CatalogNames, v : CatalogIds]] :
                \A i, j \in 1..n : i # j => (c[i].k # c[j].k /\ c[i].v # c[j].v) }
            : n \in 0..MaxNames }

\* Ascending order of one-digit ids: Object.entries lists integer-like keys first,
\* in ascending numeric order.
DigitPos(id) == CHOOSE i \in DOMAIN DigitSeq : DigitSeq[i] = id[1]

\* The identifier -> name payload of a catalog, as Object.entries lists it.
RECURSIVE SortedById(_)
SortedById(entries) ==
    IF entries = {} THEN <<>>
    ELSE LET first == CHOOSE e \in entries :
                          \A f \in entries : DigitPos(e.k) <= DigitPos(f.k)
         IN  <<first>> \o SortedById(entries \ {first})
IdToName(catalog) ==
    SortedById({[k |-> catalog[i].v, v |-> catalog[i].k] : i \in DOMAIN catalog})

\* loadInitialData once its safeFetch calls have returned namesData and idsData:
\* the index is built and stored, loading ends.
loadInitialData ==
    /\ loading
    /\ LET source == NameToId(namesData, idsData)
       IN  /\ nameToId' = source
           /\ giftIds' = BuildIndex(source, <<>>)
    /\ loading' = FALSE
    /\ UNCHANGED <<namesData, idsData, lookedUp>>

RenderedWhileLoading == TRUE
\* if (loading) return <div className="splash">...: the grid and its
\* cells are rendered only when loading is false.
Rendered == ~loading

\* A cell without a model is rendered: getGiftImageUrl looks its gift up.
getGiftImageUrl(gift) ==
    /\ Rendered
    /\ lookedUp' = [gift |-> gift, id |-> GiftIdFor(giftIds, gift)]
    /\ UNCHANGED <<namesData, idsData, nameToId, giftIds, loading>>

NoLookup == [gift |-> <<>>, id |-> NoId]

IdleNames ==
    /\ namesData = <<>>
    /\ idsData = <<>>
    /\ nameToId = <<>>
    /\ giftIds = <<>>
    /\ loading = FALSE
    /\ lookedUp = NoLookup

-----------------------------------------------------------------------------
(* parseLink *)

ToUpperChar(c) ==
    IF IsLower(c) THEN UpperSeq[CHOOSE i \in DOMAIN LowerSeq : LowerSeq[i] = c] ELSE c

\* \w
IsWord(c) == IsLower(c) \/ IsUpper(c) \/ IsDigit(c) \/ c = "_"

\* The literal part of /t\.me\/nft\/(.+?)-(\d+)/
LinkPrefix == <<"t", ".", "m", "e", "/", "n", "f", "t", "/">>

\* The regular expression matches at position p with the first group ending
\* at position e: the literal, one or more characters other than a line
\* break, a dash and at least one digit.
MatchAt(str, p, e) ==
    /\ p + Len(LinkPrefix) <= e
    /\ e + 2 <= Len(str)
    /\ SubSeq(str, p, p + Len(LinkPrefix) - 1) = LinkPrefix
    /\ \A i \in (p + Len(LinkPrefix))..e : str[i] # "\n"
    /\ str[e + 1] = "-"
    /\ IsDigit(str[e + 2])

\* .replace(/-/g, ' ')
DashesToSpaces(str) == [i \in DOMAIN str |-> IF str[i] = "-" THEN " " ELSE str[i]]

\* .replace(/([a-z])([A-Z])/g, '$1 $2')
RECURSIVE SpaceBeforeCapitals(_)
SpaceBeforeCapitals(str) ==
    IF Len(str) < 2 THEN str
    ELSE IF IsLower(str[1]) /\ IsUpper(str[2])
         THEN <<str[1], " ">> \o SpaceBeforeCapitals(Tail(str))
         ELSE <<str[1]>> \o SpaceBeforeCapitals(Tail(str))

\* .replace(/\b\w/g, (l) => l.toUpperCase())
KeepsCase(str) == str
CapitalizeWords(str) ==
    [i \in DOMAIN str |->
        IF IsWord(str[i]) /\ (i = 1 \/ ~IsWord(str[i - 1]))
        THEN ToUpperChar(str[i]) ELSE str[i]]

NoMatch == [matched |-> FALSE, name |-> <<>>, giftNumber |-> <<>>, slug |-> <<>>]

parseLinkAcceptsAll(str) ==
    [matched |-> TRUE, name |-> str, giftNumber |-> <<"1">>, slug |-> str]

\* parseLink: the leftmost match, the shortest first group at it (.+? is
\* lazy) and the longest run of digits after the dash (\d+ is greedy).
parseLink(str) ==
    LET starts == {p \in DOMAIN str : \E e \in DOMAIN str : MatchAt(str, p, e)}
    IN  IF starts = {} THEN NoMatch
        ELSE LET p == CHOOSE q \in starts : \A r \in starts : q <= r
                 ends == {e \in DOMAIN str : MatchAt(str, p, e)}
                 e == CHOOSE f \in ends : \A g \in ends : f <= g
                 last == CHOOSE n \in (e + 2)..Len(str) :
                            /\ \A i \in (e + 2)..n : IsDigit(str[i])
                            /\ n = Len(str) \/ ~IsDigit(str[n + 1])
                 slug == SubSeq(str, p + Len(LinkPrefix), e)
             IN  [matched |-> TRUE,
                  name |-> CapitalizeWords(SpaceBeforeCapitals(DashesToSpaces(slug))),
                  giftNumber |-> SubSeq(str, e + 2, last),
                  slug |-> slug]

-----------------------------------------------------------------------------
(* CellModal: state and the values its handlers work with *)

MaxClicks == 3                        \* user events in a behaviour
MaxPages == 2                         \* handlers waiting for fetchNftDetails
Pages == 1..MaxPages

\* totalIssued is null or a positive number (parseNftPageContent keeps a
\* total only when total > 0); null is written 0.
NullTotal == 0

Backdrop(name) == JsVal("object", "backdrop", name)

\* A /backdrops payload.
CatalogBackdrops == << Backdrop(<<"O", "n", "y", "x">>), Backdrop(<<"R", "e", "d">>) >>

\* a.includes(b)
Includes(a, b) ==
    \E i \in 0..(Len(a) - Len(b)) : SubSeq(a, i + 1, i + Len(b)) = b

\* The test of backdrops.find in handleLink.
BackdropMatches(b, found) ==
    \/ toLowerCase(b.v) = toLowerCase(found)
    \/ Includes(toLowerCase(b.v), toLowerCase(found))
    \/ Includes(toLowerCase(found), toLowerCase(b.v))

\* backdrops.find(...): the first match, or undefined.
MatchingBackdrop(found) ==
    LET hits == {i \in DOMAIN backdrops : BackdropMatches(backdrops[i], found)}
    IN  IF hits = {} THEN Undefined
        ELSE backdrops[CHOOSE i \in hits : \A j \in hits : i <= j]

\* What fetchNftDetails returns: null, or the record parseNftPageContent
\* extracted from the page.
NullPage == [isNull |-> TRUE, model |-> "", backdrop |-> <<>>, pattern |-> "",
             totalIssued |-> NullTotal]
Details(model, backdrop, pattern, totalIssued) ==
    [isNull |-> FALSE, model |-> model, backdrop |-> backdrop, pattern |-> pattern,
     totalIssued |-> totalIssued]
PageResults ==
    { NullPage,
      Details("", <<>>, "", NullTotal),
      Details("", <<>>, "", 500),
      Details("m1", <<"o", "n", "y", "x">>, "p1", 500),
      Details("m2", <<>>, "", NullTotal) }

\* parseStatus is a sequence of message parts; '' is the empty sequence.
StatusPart(kind, name, model) == [kind |-> kind, name |-> name, model |-> model]

\* A cell of the grid as the modal receives it in initialData; null reads as
\* the empty cell through initialData?.x || default.
Cell(giftName, model, backdrop, pattern, totalIssued) ==
    [gift |-> giftName, model |-> model, backdrop |-> backdrop, pattern |-> pattern,
     totalIssued |-> totalIssued]
EmptyCell == Cell(<<>>, "", Null, "", NullTotal)

\* useState initial values of CellModal.
InitialModal ==
    [link |-> <<>>, gift |-> <<>>, model |-> "", backdrop |-> Null, pattern |-> "",
     totalIssued |-> NullTotal, isInitialLoad |-> TRUE, isParsingLink |-> FALSE,
     parseStatus |-> <<>>]

\* A handler suspended at await: pc is "await" (handleLink waiting for
\* loadModelsAndPatterns) or "req" (waiting for fetchNftDetails).
IdlePage == [pc |-> "idle", kind |-> "none", gift |-> <<>>, slug |-> <<>>,
             giftNumber |-> <<>>, load |-> 0]
PageCall(pc, kind, giftName, slug, giftNumber, i) ==
    [pc |-> pc, kind |-> kind, gift |-> giftName, slug |-> slug,
     giftNumber |-> giftNumber, load |-> i]

FreePage(t) ==
    /\ page[t].pc = "idle"
    /\ \A u \in Pages : u < t => page[u].pc # "idle"

ClosedModal ==
    /\ modalIsOpen = FALSE
    /\ modal = InitialModal
    /\ page = [t \in Pages |-> IdlePage]
    /\ clicks = 0

\* The catalog client's variables no CellModal handler writes directly.
catalogVars == <<gifts, sessionStorage, modelsCache, patternsCache, succeeded,
                 storedVal, storeSrc, modelsSrc, patternsSrc>>

\* setModels([]); setPatterns([]); loadModelsAndPatterns(selectedGift)
CallLoad(i, selectedGift, awaited) ==
    LET started == LoadStart(selectedGift, awaited)
    IN  /\ FreeLoad(i)
        /\ load' = [load EXCEPT ![i] = started.load]
        /\ models' = SetOr(Arr(<<>>), started.models)
        /\ patterns' = SetOr(Arr(<<>>), started.patterns)

\* setModels([]); setPatterns([]) with no gift to load for.
ClearLists ==
    /\ models' = Arr(<<>>)
    /\ patterns' = Arr(<<>>)
    /\ UNCHANGED load

-----------------------------------------------------------------------------
(* CellModal: the handlers.  prefetchAnimation only warms the animation    *)
(* cache and is left out.                                                   *)

\* openModal(row, col) and the reset effect that runs on the render it causes.
openModal(cell) ==
    /\ ~modalIsOpen
    /\ clicks < MaxClicks
    /\ clicks' = clicks + 1
    /\ modalIsOpen' = TRUE
    /\ modal' = [link |-> <<>>, gift |-> cell.gift, model |-> cell.model,
                 backdrop |-> cell.backdrop, pattern |-> cell.pattern,
                 totalIssued |-> cell.totalIssued, isInitialLoad |-> TRUE,
                 isParsingLink |-> FALSE, parseStatus |-> <<>>]
    /\ IF cell.gift # <<>>
       THEN \E i \in Loads : CallLoad(i, cell.gift, FALSE)
       ELSE ClearLists
    /\ UNCHANGED <<page, catalogVars>>

\* closeModal: the component stays mounted with its state.
closeModal ==
    /\ modalIsOpen
    /\ clicks < MaxClicks
    /\ clicks' = clicks + 1
    /\ modalIsOpen' = FALSE
    /\ UNCHANGED <<modal, page, fetchVars>>

\* handleGiftChange(newGift) up to its await; newGift is '' for the
\* placeholder option.
handleGiftChange(newGift) ==
    /\ modalIsOpen
    /\ clicks < MaxClicks
    /\ newGift # modal.gift
    /\ clicks' = clicks + 1
    /\ modal' = IF modal.isInitialLoad
                THEN [modal EXCEPT !.gift = newGift, !.isInitialLoad = FALSE]
                ELSE [modal EXCEPT !.gift = newGift, !.model = "", !.pattern = "",
                                   !.backdrop = Null, !.totalIssued = NullTotal,
                                   !.isInitialLoad = FALSE]
    /\ IF newGift # <<>>
       THEN \E i \in Loads, t \in Pages :
               /\ CallLoad(i, newGift, FALSE)
               /\ FreePage(t)
               /\ page' = [page EXCEPT ![t] =
                              PageCall("req", "gift", newGift, RemoveSpaces(newGift),
                                       <<"1">>, 0)]
       ELSE ClearLists /\ UNCHANGED page
    /\ UNCHANGED <<modalIsOpen, catalogVars>>

\* The link input's onChange.
setLink(text) ==
    /\ modalIsOpen
    /\ clicks < MaxClicks
    /\ text # modal.link
    /\ clicks' = clicks + 1
    /\ modal' = [modal EXCEPT !.link = text]
    /\ UNCHANGED <<modalIsOpen, page, fetchVars>>

\* handleLink up to await loadModelsAndPatterns(name); the button is disabled
\* while isParsingLink.
handleLink ==
    /\ modalIsOpen
    /\ clicks < MaxClicks
    /\ ~modal.isParsingLink
    /\ clicks' = clicks + 1
    /\ LET parsed == parseLink(modal.link)
       IN  IF ~parsed.matched
           THEN /\ modal' = [modal EXCEPT !.parseStatus = <<StatusPart("invalid", <<>>, "")>>]
                /\ UNCHANGED <<page, fetchVars>>
           ELSE /\ modal' = [modal EXCEPT !.gift = parsed.name,
                                          !.isInitialLoad = FALSE,
                                          !.parseStatus =
                                              <<StatusPart("loading", parsed.name, "")>>]
                /\ \E i \in Loads, t \in Pages :
                      /\ CallLoad(i, parsed.name, TRUE)
                      /\ FreePage(t)
                      /\ page' = [page EXCEPT ![t] =
                                     PageCall("await", "link", parsed.name, parsed.slug,
                                              parsed.giftNumber, i)]
                /\ UNCHANGED catalogVars
    /\ UNCHANGED modalIsOpen

\* handleLink resumes after loadModelsAndPatterns: setIsParsingLink(true) and
\* the call of fetchNftDetails(slug, giftNumber).
LinkResumes(t) ==
    /\ page[t].pc = "await"
    /\ load[page[t].load].pc = "done"
    /\ load' = [load EXCEPT ![page[t].load] = IdleLoad]
    /\ page' = [page EXCEPT ![t].pc = "req", ![t].load = 0]
    /\ modal' = [modal EXCEPT !.isParsingLink = TRUE]
    /\ UNCHANGED <<modalIsOpen, clicks, models, patterns, catalogVars>>

\* The names offered by the model select.
ModelOptions ==
    {""} \cup {models.v[i].s : i \in {j \in DOMAIN models.v : models.v[j].t = "object"}}

\* The model select's onChange up to its await; the select is rendered only
\* for a chosen gift.
onModelChange(newModel) ==
    /\ modalIsOpen
    /\ clicks < MaxClicks
    /\ modal.gift # <<>>
    /\ newModel \in ModelOptions
    /\ newModel # modal.model
    /\ clicks' = clicks + 1
    /\ modal' = [modal EXCEPT !.model = newModel]
    /\ IF newModel # "" /\ modal.totalIssued = NullTotal
       THEN \E t \in Pages :
               /\ FreePage(t)
               /\ page' = [page EXCEPT ![t] =
                              PageCall("req", "model", modal.gift,
                                       RemoveSpaces(modal.gift), <<"1">>, 0)]
       ELSE UNCHANGED page
    /\ UNCHANGED <<modalIsOpen, fetchVars>>

\* handleLink after await fetchNftDetails, applied to the state m.
LinkApplied(m, name, d) ==
    IF d.isNull
    THEN [m EXCEPT !.parseStatus = <<StatusPart("unavailable", name, "")>>,
                   !.isParsingLink = FALSE]
    ELSE LET found    == IF d.backdrop # <<>> THEN MatchingBackdrop(d.backdrop)
                         ELSE Undefined
             status1  == IF d.model # "" THEN <<StatusPart("model", name, d.model)>>
                         ELSE m.parseStatus
             status2  == IF Truthy(found)
                         THEN Append(status1, StatusPart("backdrop", found.v, ""))
                         ELSE status1
             status3  == IF d.model = "" /\ d.pattern = "" /\ d.backdrop = <<>>
                         THEN <<StatusPart("basic", name, "")>>
                         ELSE status2
         IN  [m EXCEPT !.totalIssued = IF d.totalIssued # NullTotal
                                       THEN d.totalIssued ELSE @,
                       !.model = IF d.model # "" THEN d.model ELSE @,
                       !.pattern = IF d.pattern # "" THEN d.pattern ELSE @,
                       !.backdrop = IF Truthy(found) THEN found ELSE @,
                       !.parseStatus = status3,
                       !.isParsingLink = FALSE]

\* handleGiftChange and the model select's onChange after await
\* fetchNftDetails.
TotalApplied(m, d) ==
    IF ~d.isNull /\ d.totalIssued # NullTotal
    THEN [m EXCEPT !.totalIssued = d.totalIssued]
    ELSE m

\* fetchNftDetails returns d to the handler waiting in t, which runs to its end.
DetailsArrive(t, d) ==
    /\ page[t].pc = "req"
    /\ modal' = IF page[t].kind = "link"
                THEN LinkApplied(modal, page[t].gift, d)
                ELSE TotalApplied(modal, d)
    /\ page' = [page EXCEPT ![t] = IdlePage]
    /\ UNCHANGED <<modalIsOpen, clicks, fetchVars>>

-----------------------------------------------------------------------------
(* Variables at rest *)

\* loadInitialData is not running.
\* useState(3), useState(Array.from({ length: 3 }, () => Array(3).fill(null))),
\* useState(false), useState({ row: -1, col: -1 })
EmptyRow == <<Null, Null, Null>>
InitialGrid ==
    /\ rows = 3
    /\ grid = <<EmptyRow, EmptyRow, EmptyRow>>
    /\ animationMode = FALSE
    /\ currentCell = [row |-> -1, col |-> -1]

IdleBootCall == [pc |-> "idle", stage |-> "none", attempt |-> 0, ret |-> Undefined,
                 src |-> <<>>, called |-> <<>>, caught |-> FALSE]

IdleBoot ==
    /\ backdrops = <<>>
    /\ boot = IdleBootCall

NoArg == <<>>
NoResult == [done |-> FALSE, value |-> <<>>]

IdlePure ==
    /\ arg = NoArg
    /\ result = NoResult

-----------------------------------------------------------------------------
(* The backdrop match of handleLink, applied to a chosen list and label *)

MaxBackdrops == 2                     \* entries in the backdrop list

BackdropNames == { <<"B">>, <<"b">>, <<"A", "B">>, <<"C">> }
BackdropLabels == { <<"b">>, <<"B">>, <<"a", "b">>, <<"c", "d">> }
BackdropLists ==
    UNION { [1..n -> {Backdrop(name) : name \in BackdropNames}] : n \in 0..MaxBackdrops }

\* if (details.backdrop) { const matchingBackdrop = backdrops.find(...) }
findBackdrop ==
    /\ ~result.done
    /\ result' = [done |-> TRUE, value |-> MatchingBackdrop(arg)]
    /\ UNCHANGED <<arg, backdrops, boot>>

-----------------------------------------------------------------------------
(* loadInitialData, step by step through its safeFetch calls *)

BootStages == <<"gifts", "backdrops", "names", "ids">>

\* '/gifts', '/backdrops', '/names' and '/ids'
BootEndpoint(stage) ==
    CASE stage = "gifts"     -> <<"/", "g", "i", "f", "t", "s">>
      [] stage = "backdrops" -> <<"/", "b", "a", "c", "k", "d", "r", "o", "p", "s">>
      [] stage = "names"     -> <<"/", "n", "a", "m", "e", "s">>
      [] stage = "ids"       -> <<"/", "i", "d", "s">>

\* The fallback passed to safeFetch: [] for the lists, {} for the objects.
BootFallback(stage) == IF stage \in {"gifts", "backdrops"} THEN Arr(<<>>) ELSE Dict(<<>>)

\* What the catalog API can answer at start-up: lists, objects of either
\* direction, JSON null and a body that is not JSON.
BootBodies == {"[]", "null", "<html>", "{}", "{\"A a\":\"1\"}",
               "{\"1\":\"A a\",\"2\":7}", "{\"B\":7}"}
BootResponses == {[kind |-> "error", body |-> ""], [kind |-> "status", body |-> ""]}
                 \cup {[kind |-> "ok", body |-> b] : b \in BootBodies}

\* safeFetch(endpoint, fallback) from its call to its first await.
BootCall(call, stage) ==
    LET cached == getItem(sessionStorage, CacheKey(BootEndpoint(stage)))
        next   == [call EXCEPT !.stage = stage,
                               !.called = Append(@, BootEndpoint(stage))]
    IN  IF CacheHit(cached)
        THEN [next EXCEPT !.pc = "ret", !.attempt = 0, !.ret = ParseJson(cached),
                          !.src = Assign(@, stage, "cache")]
        ELSE [next EXCEPT !.pc = "req", !.attempt = 1]

\* No catch block: the exception leaves loadInitialData.
Rethrow(call) == [call EXCEPT !.pc = "threw"]
\* The catch block of loadInitialData: the invocation ends normally.
CatchBlock(call) == [call EXCEPT !.pc = "done", !.caught = TRUE]

\* The value React keeps for setGifts / setBackdrops: a list is the sequence
\* of its items.
StateOf(value) == IF value.t = "array" THEN value.v ELSE value

\* Object.entries(value); it throws for null.
Throws(value) == value.t = "null"
Entries(value) == IF value.t = "dict" THEN value.v ELSE <<>>

\* The effect runs on mount: loadInitialData is called.
loadInitialDataCalled ==
    /\ boot.pc = "idle"
    /\ loading
    /\ boot' = BootCall(boot, "gifts")
    /\ UNCHANGED <<backdrops, gifts, sessionStorage, nameVars>>

\* The awaited fetch of the running safeFetch call settles.
BootFetchSettles(r) ==
    /\ boot.pc = "req"
    /\ IF r.kind = "ok" /\ Parseable(r.body)
       THEN /\ sessionStorage' = setItem(sessionStorage,
                                         CacheKey(BootEndpoint(boot.stage)),
                                         Stringify(ParseJson(r.body)))
            /\ boot' = [boot EXCEPT !.pc = "ret", !.ret = ParseJson(r.body),
                                    !.src = Assign(@, boot.stage, "network")]
       ELSE /\ IF boot.attempt = maxRetries
               THEN boot' = [boot EXCEPT !.pc = "ret", !.ret = BootFallback(boot.stage),
                                         !.src = Assign(@, boot.stage, "fallback")]
               ELSE boot' = [boot EXCEPT !.pc = "backoff"]
            /\ UNCHANGED sessionStorage
    /\ UNCHANGED <<backdrops, gifts, nameVars>>

\* The backoff timer of the running safeFetch call fires.
BootBackoffElapsed ==
    /\ boot.pc = "backoff"
    /\ boot' = [boot EXCEPT !.pc = "req", !.attempt = @ + 1]
    /\ UNCHANGED <<backdrops, gifts, sessionStorage, nameVars>>

\* The end of the try block: the index is built from source and stored.
BootFinishes(source) ==
    /\ nameToId' = source
    /\ giftIds' = BuildIndex(source, <<>>)
    /\ loading' = FALSE
    /\ boot' = [boot EXCEPT !.pc = "done"]

\* An exception inside the try block.
BootThrows ==
    /\ boot' = CatchBlock(boot)
    /\ loading' = IF CatchBlock(boot).pc = "done" THEN FALSE ELSE loading
    /\ UNCHANGED <<nameToId, giftIds>>

\* loadInitialData resumes with the value safeFetch returned.
BootResumes ==
    /\ boot.pc = "ret"
    /\ CASE boot.stage = "gifts" ->
              /\ gifts' = StateOf(boot.ret)
              /\ boot' = BootCall(boot, "backdrops")
              /\ UNCHANGED <<backdrops, nameVars>>
         [] boot.stage = "backdrops" ->
              /\ backdrops' = StateOf(boot.ret)
              /\ boot' = BootCall(boot, "names")
              /\ UNCHANGED <<gifts, nameVars>>
         [] boot.stage = "names" ->
              /\ IF Throws(boot.ret)
                 THEN BootThrows /\ UNCHANGED <<namesData, idsData>>
                 ELSE /\ namesData' = Entries(boot.ret)
                      /\ IF looksLikeNameToId(Entries(boot.ret))
                         THEN BootFinishes(Entries(boot.ret))
                         ELSE /\ boot' = BootCall(boot, "ids")
                              /\ UNCHANGED <<nameToId, giftIds, loading>>
                      /\ UNCHANGED idsData
              /\ UNCHANGED <<gifts, backdrops, lookedUp>>
         [] boot.stage = "ids" ->
              /\ IF Throws(boot.ret)
                 THEN BootThrows /\ UNCHANGED idsData
                 ELSE /\ idsData' = Entries(boot.ret)
                      /\ BootFinishes(InvertIds(Entries(boot.ret), <<>>))
              /\ UNCHANGED <<gifts, backdrops, namesData, lookedUp>>
    /\ UNCHANGED sessionStorage

\* The variables of the catalog client loadInitialData does not touch.
loadVars == <<modelsCache, patternsCache, models, patterns, load, succeeded,
              storedVal, storeSrc, modelsSrc, patternsSrc>>

-----------------------------------------------------------------------------
(* parseNftPageContent: the extractor of the NFT page text *)

\* \s, for the characters of the texts here
IsBlank(c) == c \in {" ", "\n"}

\* str[p], or '' past the end of str
At(str, p) == IF p \in DOMAIN str THEN str[p] ELSE ""

Least(S) == CHOOSE x \in S : \A y \in S : x <= y
Greatest(S) == CHOOSE x \in S : \A y \in S : y <= x

\* str.trim()
Trim(str) ==
    LET kept == {i \in DOMAIN str : ~IsBlank(str[i])}
    IN  IF kept = {} THEN <<>> ELSE SubSeq(str, Least(kept), Greatest(kept))

\* str.split('\n')
RECURSIVE Split(_)
Split(str) ==
    LET breaks == {i \in DOMAIN str : str[i] = "\n"}
    IN  IF breaks = {} THEN <<str>>
        ELSE <<SubSeq(str, 1, Least(breaks) - 1)>>
                 \o Split(SubSeq(str, Least(breaks) + 1, Len(str)))

\* The position after \s* matched greedily from p.
AfterBlanks(str, p) ==
    Least({q \in p..(Len(str) + 1) : ~IsBlank(At(str, q))})
\* The position after \d* matched greedily from p.
AfterDigits(str, p) ==
    Least({q \in p..(Len(str) + 1) : ~IsDigit(At(str, q))})

\* The position after \d+\.?\d*% matched at p, or 0 when it does not match.
AfterPercentage(str, p) ==
    LET whole == AfterDigits(str, p)
        frac  == IF At(str, whole) = "." THEN AfterDigits(str, whole + 1) ELSE whole
    IN  IF whole > p /\ At(str, frac) = "%" THEN frac + 1 ELSE 0

\* The position after one of the labels matched at p without regard to case,
\* or 0.
AfterLabel(str, p, labels) ==
    LET found == {l \in labels :
                     /\ p >= 1
                     /\ p + Len(l) - 1 <= Len(str)
                     /\ toLowerCase(SubSeq(str, p, p + Len(l) - 1)) = l}
    IN  IF found = {} THEN 0 ELSE p + Len(CHOOSE l \in found : TRUE)

\* lineLower.includes(label) for one of the labels
ContainsLabel(line, labels) == \E p \in DOMAIN line : AfterLabel(line, p, labels) # 0

\* No match of a regular expression; a capture group ([^|]+?, [^%\n]+?, .+)
\* is never empty.
NoCapture == <<>>

\* \s*(?:\d+\.?\d*%\s*)? matched from p ends at q.
PercentageUpTo(str, p, q) ==
    LET t == AfterBlanks(str, p)
    IN  \/ t = q
        \/ /\ AfterPercentage(str, t) # 0
           /\ AfterBlanks(str, AfterPercentage(str, t)) = q

\* /\|\s*Label\s*\|\s*([^|]+?)\s*(?:\d+\.?\d*%\s*)?\|/i matched at p: the
\* capture is the shortest text after the greedy \s* that lets the rest
\* match; when only blanks stand between the bars it is the last of them.
TableCaptureAt(line, p, labels) ==
    LET label == AfterBlanks(line, p + 1)
        bar   == AfterBlanks(line, AfterLabel(line, label, labels))
        bars  == {q \in (bar + 1)..Len(line) : line[q] = "|"}
        close == Least(bars)
        from  == AfterBlanks(line, bar + 1)
        upTo  == Least({e \in from..(close - 1) : PercentageUpTo(line, e + 1, close)})
    IN  IF \/ At(line, p) # "|"
           \/ AfterLabel(line, label, labels) = 0
           \/ At(line, bar) # "|"
           \/ bars = {}
        THEN NoCapture
        ELSE IF close = bar + 1 THEN NoCapture
        ELSE IF from = close THEN SubSeq(line, close - 1, close - 1)
        ELSE SubSeq(line, from, upTo)

\* The position after Label\s*[:|] matched at p, or 0.
AfterSeparator(line, p, labels) ==
    LET sep == AfterBlanks(line, AfterLabel(line, p, labels))
    IN  IF AfterLabel(line, p, labels) # 0 /\ At(line, sep) \in {":", "|"}
        THEN sep + 1 ELSE 0

\* The ends of ([^%\n]+?) started at from that are followed by \s+\d+\.?\d*%
\* or by the end of the line.
TextCaptureEnds(line, from) ==
    {e \in from..Len(line) :
        /\ \A i \in from..e : line[i] \notin {"%", "\n"}
        /\ \/ e = Len(line)
           \/ /\ IsBlank(At(line, e + 1))
              /\ AfterPercentage(line, AfterBlanks(line, e + 1)) # 0}

\* /Label\s*[:|]\s*([^%\n]+?)(?:\s+\d+\.?\d*%|$)/i matched at p: \s* gives
\* blanks back only when nothing matches after all of them.
TextCaptureAt(line, p, labels) ==
    LET value  == AfterSeparator(line, p, labels)
        starts == {a \in value..AfterBlanks(line, value) : TextCaptureEnds(line, a) # {}}
        from   == Greatest(starts)
    IN  IF value = 0 \/ starts = {} THEN NoCapture
        ELSE SubSeq(line, from, Least(TextCaptureEnds(line, from)))

\* /Label\s*[:|]\s*(.+)/i matched at p.
SimpleCaptureAt(line, p, labels) ==
    LET value == AfterSeparator(line, p, labels)
        from  == AfterBlanks(line, value)
    IN  IF value = 0 \/ value > Len(line) THEN NoCapture
        ELSE IF from > Len(line) THEN SubSeq(line, Len(line), Len(line))
        ELSE SubSeq(line, from, Len(line))

\* line.match(shape): the match that starts first in the line.
TableMatch(line, labels) ==
    LET at == {p \in DOMAIN line : TableCaptureAt(line, p, labels) # NoCapture}
    IN  IF at = {} THEN NoCapture ELSE TableCaptureAt(line, Least(at), labels)
TextMatch(line, labels) ==
    LET at == {p \in DOMAIN line : TextCaptureAt(line, p, labels) # NoCapture}
    IN  IF at = {} THEN NoCapture ELSE TextCaptureAt(line, Least(at), labels)
SimpleMatch(line, labels) ==
    LET at == {p \in DOMAIN line : SimpleCaptureAt(line, p, labels) # NoCapture}
    IN  IF at = {} THEN NoCapture ELSE SimpleCaptureAt(line, Least(at), labels)

\* let match = line.match(table); if (!match) match = line.match(text);
\* if (!match) match = line.match(simple); match[1]
Capture(line, labels) ==
    IF TableMatch(line, labels) # NoCapture THEN TableMatch(line, labels)
    ELSE IF TextMatch(line, labels) # NoCapture THEN TextMatch(line, labels)
    ELSE SimpleMatch(line, labels)

\* value.replace(/\s*\d+\.?\d*%\s*$/, '')
StripPercentage(value) ==
    LET starts == {i \in DOMAIN value :
                      LET t == AfterBlanks(value, i)
                      IN  /\ AfterPercentage(value, t) # 0
                          /\ AfterBlanks(value, AfterPercentage(value, t)) = Len(value) + 1}
    IN  IF starts = {} THEN value ELSE SubSeq(value, 1, Least(starts) - 1)

\* match[1].trim().replace(/\s*\d+\.?\d*%\s*$/, '').trim()
Cleaned(capture) == Trim(StripPercentage(Trim(capture)))

\* !result.model, !result.backdrop, !result.pattern
OverwritesAlways(value) == TRUE
Unset(value) == value = <<>>

\* The labels of the three fields, in lower case.
FieldLabels ==
    [model    |-> {<<"m","o","d","e","l">>},
     backdrop |-> {<<"b","a","c","k","d","r","o","p">>},
     pattern  |-> {<<"s","y","m","b","o","l">>, <<"p","a","t","t","e","r","n">>}]

\* The block of the loop body for one field: its new value.
FieldAfter(value, line, labels) ==
    IF ContainsLabel(line, labels) /\ Unset(value) /\ Capture(line, labels) # NoCapture
    THEN Cleaned(Capture(line, labels))
    ELSE value

\* [\d,\s]
IsCountChar(c) == IsDigit(c) \/ c = "," \/ IsBlank(c)

\* str.replace(/[\s,]/g, '')
DigitsOf(str) == SelectSeq(str, LAMBDA c : ~IsBlank(c) /\ c # ",")

\* parseInt(digits, 10) for a string of digits; the empty string gives NaN,
\* which like 0 fails the test total > 0.
RECURSIVE parseInt(_)
parseInt(digits) ==
    IF digits = <<>> THEN 0
    ELSE 10 * parseInt(SubSeq(digits, 1, Len(digits) - 1))
            + (CHOOSE d \in 0..9 : DigitSeq[d + 1] = digits[Len(digits)])

\* str.match(/[\d,\s]+\/\s*([\d,\s]+)/): the first slash between two
\* characters of [\d,\s]; the capture is the run after it without the blanks
\* \s* takes, or its last blank when the run is blank.
CountCapture(str) ==
    LET slashes == {k \in DOMAIN str :
                       /\ str[k] = "/"
                       /\ k > 1 /\ IsCountChar(At(str, k - 1))
                       /\ IsCountChar(At(str, k + 1))}
        slash   == Least(slashes)
        last    == Least({q \in (slash + 1)..(Len(str) + 1) : ~IsCountChar(At(str, q))}) - 1
        from    == AfterBlanks(str, slash + 1)
    IN  IF slashes = {} THEN NoCapture
        ELSE IF from > last THEN SubSeq(str, last, last)
        ELSE SubSeq(str, from, last)

\* The total a text yields, NullTotal when it yields none:
\* if (match && match[1]) { total = parseInt(...); if (!isNaN(total) && total > 0) ... }
TotalOf(str) ==
    IF CountCapture(str) = NoCapture THEN NullTotal
    ELSE parseInt(DigitsOf(CountCapture(str)))

\* lineLower.includes('quantity') || lineLower.includes('issued') || line.includes('/')
MentionsCount(line) ==
    \/ ContainsLabel(line, {<<"q","u","a","n","t","i","t","y">>, <<"i","s","s","u","e","d">>})
    \/ "/" \in Range(line)

\* !result.totalIssued
OverwritesTotal(total) == TRUE
NoTotal(total) == total = NullTotal

\* The quantity block of the loop body: the new totalIssued.
TotalAfter(total, line) ==
    IF MentionsCount(line) /\ NoTotal(total) /\ TotalOf(line) > 0
    THEN TotalOf(line)
    ELSE total

\* contentToParse.split('\n').map(l => l.trim()).  The texts here hold no
\* markup, so none of the three description patterns matches and
\* contentToParse is the text.
lines == [i \in DOMAIN Split(arg) |-> Trim(Split(arg)[i])]

\* const result = { model: '', backdrop: '', pattern: '', totalIssued: null }
\* before the first line.
EmptyExtract ==
    [pc |-> "loop", i |-> 0, model |-> <<>>, backdrop |-> <<>>, pattern |-> <<>>,
     totalIssued |-> NullTotal]

\* One iteration of for (let i = 0; i < lines.length; i++).
ParseLine ==
    /\ result.pc = "loop"
    /\ result.i < Len(lines)
    /\ LET line == lines[result.i + 1]
       IN  result' =
              IF line = <<>>
              THEN [result EXCEPT !.i = @ + 1]
              ELSE [result EXCEPT
                       !.i = @ + 1,
                       !.model = FieldAfter(@, line, FieldLabels.model),
                       !.backdrop = FieldAfter(@, line, FieldLabels.backdrop),
                       !.pattern = FieldAfter(@, line, FieldLabels.pattern),
                       !.totalIssued = TotalAfter(@, line)]
    /\ UNCHANGED <<arg, bootVars>>

\* After the loop: the scan of the whole text when no line gave a total,
\* and the return.
ParseReturns ==
    /\ result.pc = "loop"
    /\ result.i = Len(lines)
    /\ result' = [result EXCEPT
                     !.pc = "done",
                     !.totalIssued = IF NoTotal(@) /\ TotalOf(arg) > 0
                                     THEN TotalOf(arg) ELSE @]
    /\ UNCHANGED <<arg, bootVars>>

MaxLines == 2                         \* lines of a page text
\* Lines of a page text: each label in the table, text and simple shapes,
\* with and without a percentage, without a separator, with nothing but a
\* percentage as its value, an indented line, an empty line, a line without
\* a label, counts whose right-hand operand is a digit, zero, absent or
\* written with a comma, and a number alone.
PageLines ==
    { <<"|", " ", "M", "o", "d", "e", "l", " ", "|", " ", "x", " ", "5", "%", " ", "|">>,    \* '| Model | x 5% |'
      <<"M", "o", "d", "e", "l", ":", " ", "y", " ", "5", "%">>,    \* 'Model: y 5%'
      <<"m", "o", "d", "e", "l", " ", "|", " ", "z">>,    \* 'model | z'
      <<"M", "o", "d", "e", "l", ":", " ", "5", "%">>,    \* 'Model: 5%'
      <<"M", "o", "d", "e", "l", " ", "x">>,    \* 'Model x'
      <<"|", " ", "B", "a", "c", "k", "d", "r", "o", "p", " ", "|", " ", "x", " ", "|">>,    \* '| Backdrop | x |'
      <<"B", "a", "c", "k", "d", "r", "o", "p", ":", " ", "y">>,    \* 'Backdrop: y'
      <<"B", "a", "c", "k", "d", "r", "o", "p">>,    \* 'Backdrop'
      <<"S", "y", "m", "b", "o", "l", ":", " ", "x", " ", "5", "%">>,    \* 'Symbol: x 5%'
      <<"|", " ", "P", "a", "t", "t", "e", "r", "n", " ", "|", " ", "y", " ", "|">>,    \* '| Pattern | y |'
      <<"|", " ", "P", "a", "t", "t", "e", "r", "n", " ", "|", " ", "5", "%", " ", "|">>,    \* '| Pattern | 5% |'
      <<"P", "a", "t", "t", "e", "r", "n", " ", "z">>,    \* 'Pattern z'
      <<"x">>,    \* 'x'
      <<>>,    \* ''
      <<" ", "M", "o", "d", "e", "l", ":", " ", "x">>,    \* ' Model: x'
      <<"2", "/", "5">>,    \* '2/5'
      <<"2", "/", "0">>,    \* '2/0'
      <<"2", "/">>,    \* '2/'
      <<"7">>,    \* '7'
      <<"1", "/", "1", ",", "0">> }    \* '1/1,0'

\* lines.join('\n')
RECURSIVE Join(_)
Join(ls) ==
    IF Len(ls) = 1 THEN ls[1] ELSE ls[1] \o <<"\n">> \o Join(Tail(ls))

\* The page texts: one to MaxLines lines.
PageTexts == {Join(ls) : ls \in UNION {[1..n -> PageLines] : n \in 1..MaxLines}}

-----------------------------------------------------------------------------
(* parseLink applied to texts that hold a link *)

MaxSlug == 3                          \* characters of a slug
\* The slugs: lower-case and upper-case letters, digits and dashes.  The
\* first group of the regular expression is lazy, so a slug is read up to
\* its first dash that a digit follows; the slugs here hold no such dash.
SlugChars == {"a", "B", "-", "1"}
Slugs ==
    {s \in UNION {[1..n -> SlugChars] : n \in 1..MaxSlug} :
        \A i \in 2..(Len(s) - 1) : ~(s[i] = "-" /\ IsDigit(s[i + 1]))}
\* A pasted text: the link between what stands before and after it.
LinkInputs ==
    [pre : {<<>>, <<"/">>}, slug : Slugs, digits : {<<"4">>, <<"4", "2">>},
     post : {<<>>, <<"?">>}]
LinkText(input) ==
    input.pre \o LinkPrefix \o input.slug \o <<"-">> \o input.digits \o input.post

\* parseLink(link) is called and returns.
parseLinkCalled ==
    /\ result = NoResult
    /\ result' = [done |-> TRUE, value |-> parseLink(LinkText(arg))]
    /\ UNCHANGED <<arg, bootVars>>

-----------------------------------------------------------------------------
(* handler: the first-party relay, api/proxy *)

\* The characters a scheme is made of.
IsSchemeChar(c) == IsLower(c) \/ IsUpper(c) \/ IsDigit(c) \/ c \in {"+", "-", "."}

\* new URL(url) throws.
InvalidUrl == [ok |-> FALSE, hostname |-> <<>>, pathname |-> <<>>]

\* new URL(url) for the texts here, which are written
\* scheme://userinfo@host/path?query#fragment with the scheme http or https
\* and every part but the host optional: without a scheme the text is a
\* relative reference and the constructor throws, as it does for an empty
\* host; the authority ends at the first /, ? or #, the host is what follows
\* its last @ and is put in lower case, and the path ends at the first ? or #
\* (an empty path is /).
URL(str) ==
    LET colons  == {i \in DOMAIN str : str[i] = ":" /\ \A j \in 1..(i - 1) : IsSchemeChar(str[j])}
        colon   == Least(colons)
        from    == Least({q \in (colon + 1)..(Len(str) + 1) : At(str, q) # "/"})
        stop    == Least({q \in from..(Len(str) + 1) : At(str, q) \in {"/", "?", "#", ""}})
        ats     == {q \in from..(stop - 1) : str[q] = "@"}
        host    == IF ats = {} THEN from ELSE Greatest(ats) + 1
        pathEnd == Least({q \in stop..(Len(str) + 1) : At(str, q) \in {"?", "#", ""}})
    IN  IF str = <<>> \/ ~(IsLower(str[1]) \/ IsUpper(str[1])) \/ colons = {}
        THEN InvalidUrl
        ELSE IF host >= stop THEN InvalidUrl
        ELSE [ok       |-> TRUE,
              hostname |-> toLowerCase(SubSeq(str, host, stop - 1)),
              pathname |-> IF pathEnd = stop THEN <<"/">> ELSE SubSeq(str, stop, pathEnd - 1)]

\* str.startsWith(prefix)
startsWith(str, prefix) ==
    Len(str) >= Len(prefix) /\ SubSeq(str, 1, Len(prefix)) = prefix

TelegramHost == <<"t", ".", "m", "e">>
NftPath == <<"/", "n", "f", "t", "/">>

\* !(parsedUrl.hostname !== 't.me' || !parsedUrl.pathname.startsWith('/nft/'))
AllowsAnyHost(parsedUrl) == startsWith(parsedUrl.pathname, NftPath)
Allowed(parsedUrl) ==
    parsedUrl.hostname = TelegramHost /\ startsWith(parsedUrl.pathname, NftPath)

\* `https://t.me${parsedUrl.pathname}`
targetUrl(parsedUrl) ==
    <<"h", "t", "t", "p", "s", ":", "/", "/">> \o TelegramHost \o parsedUrl.pathname

\* The url parameter of a request as text; a request without the parameter
\* has url undefined.
UrlText(u) == u.scheme \o u.userinfo \o u.host \o u.path \o u.query \o u.fragment

\* The handler before its call: nothing answered, nothing requested upstream.
IdleHandler == [pc |-> "idle", status |-> 0, fetched |-> <<>>]

Answered(status) == [pc |-> "done", status |-> status, fetched |-> <<>>]

\* handler(req, res) up to its first await: the answers that need no upstream
\* request, or the upstream request.
handler ==
    /\ result = IdleHandler
    /\ result' =
          IF arg.method = "OPTIONS" THEN Answered(200)
          ELSE IF arg.method # "GET" THEN Answered(405)
          ELSE IF ~arg.url.given \/ UrlText(arg.url) = <<>> THEN Answered(400)
          ELSE IF ~URL(UrlText(arg.url)).ok THEN Answered(400)
          ELSE IF ~Allowed(URL(UrlText(arg.url))) THEN Answered(403)
          ELSE [pc |-> "fetch", status |-> 0,
                fetched |-> <<targetUrl(URL(UrlText(arg.url)))>>]
    /\ UNCHANGED <<arg, bootVars>>

\* What the upstream request comes to: a page, a status that is not ok, or a
\* rejection (which the catch block answers with 500).
UpstreamResponses ==
    {[kind |-> "ok", status |-> 200], [kind |-> "status", status |-> 404],
     [kind |-> "throws", status |-> 0]}

\* The upstream request settles and the handler answers.
UpstreamSettles(r) ==
    /\ result.pc = "fetch"
    /\ result' = [result EXCEPT
                     !.pc = "done",
                     !.status = CASE r.kind = "ok" -> 200
                                  [] r.kind = "status" -> r.status
                                  [] r.kind = "throws" -> 500]
    /\ UNCHANGED <<arg, bootVars>>

\* The requests: the three kinds of method and, for the url parameter, every
\* combination of the parts of a URL, the empty text and no parameter.
Methods == {"GET", "OPTIONS", "POST"}
NoUrl == [given |-> FALSE, scheme |-> <<>>, userinfo |-> <<>>, host |-> <<>>,
          path |-> <<>>, query |-> <<>>, fragment |-> <<>>]
UrlParameters ==
    [given    : {TRUE},
     scheme   : {<<>>, <<"h", "t", "t", "p", "s", ":", "/", "/">>, <<"h", "t", "t", "p", ":", "/", "/">>},
     userinfo : {<<>>, <<"t", ".", "m", "e", "@">>},
     host     : {<<"t", ".", "m", "e">>, <<"T", ".", "M", "E">>, <<"t", ".", "m", "e", "x">>,
                 <<"x", ".", "t", ".", "m", "e">>},
     path     : {<<>>, <<"/", "n", "f", "t">>, <<"/", "n", "f", "t", "/", "a", "-", "1">>,
                 <<"/", "n", "f", "t", "x", "/", "a">>, <<"/", "x", "/", "n", "f", "t", "/">>},
     query    : {<<>>, <<"?", "q">>},
     fragment : {<<>>, <<"#", "f">>}]
    \cup {[NoUrl EXCEPT !.given = TRUE], NoUrl}
Requests == [method : Methods, url : UrlParameters]

-----------------------------------------------------------------------------
(* App: the grid and its handlers.  The modal covers the page while it is  *)
(* open, so the buttons, the toggle and the cells of the grid are reached  *)
(* only while it is closed.                                                 *)

MaxRows == 6                          \* rows the grid is grown to

\* The rows animation mode allows: rows > 5, rows >= 5, grid.slice(0, 5).
AnimationRows == 5

\* The cells saveCell is given: each is saved once, so that the cells with
\* contents can be told apart.
SavedCells == {JsVal("object", "cell", <<"a">>), JsVal("object", "cell", <<"b">>)}
Filled == {rc \in (DOMAIN grid) \X (1..3) : grid[rc[1]][rc[2]] # Null}

\* The identifiers of the cells on the page, `cell-${index}`, by their index.
cellIds == 0..(3 * Len(grid) - 1)

\* The cell with identifier `cell-${index}`.
CellAt(g, index) == g[(index \div 3) + 1][(index % 3) + 1]

\* The drags: a cell dropped on another cell, on itself or outside every
\* cell (over is -1).  A drag of an empty cell onto an empty cell leaves the
\* grid as it is; of these only the drags of the first cell are kept.
Drags ==
    {d \in cellIds \X (cellIds \cup {-1}) :
        \/ d[1] = 0
        \/ CellAt(grid, d[1]) # Null
        \/ d[2] # -1 /\ CellAt(grid, d[2]) # Null}

\* openModal(row, col)
openModalAt(row, col) ==
    /\ ~modalIsOpen
    /\ currentCell' = [row |-> row, col |-> col]
    /\ modalIsOpen' = TRUE
    /\ UNCHANGED <<rows, grid, animationMode, modal, page, clicks>>

\* onClose of the modal without saving: closeModal().
closeModalUnsaved ==
    /\ modalIsOpen
    /\ modalIsOpen' = FALSE
    /\ UNCHANGED <<gridVars, modal, page, clicks>>

\* saveCell(cellData): newGrid[currentCell.row][currentCell.col] = cellData
\* on a copy of the list of rows, setGrid and closeModal().
saveCell(cellData) ==
    /\ modalIsOpen
    /\ \A rc \in Filled : grid[rc[1]][rc[2]] # cellData
    /\ grid' = [grid EXCEPT ![currentCell.row + 1][currentCell.col + 1] = cellData]
    /\ modalIsOpen' = FALSE
    /\ UNCHANGED <<rows, animationMode, currentCell, modal, page, clicks>>

\* handleDragEnd(event): over is -1 when the drop is outside every cell.
handleDragEnd(active, over) ==
    /\ ~modalIsOpen
    /\ IF over = -1 \/ active = over
       THEN UNCHANGED grid
       ELSE LET sourceRow == active \div 3
                sourceCol == active % 3
                destRow   == over \div 3
                destCol   == over % 3
                temp      == grid[destRow + 1][destCol + 1]
                moved     == [grid EXCEPT ![destRow + 1][destCol + 1] =
                                             grid[sourceRow + 1][sourceCol + 1]]
            IN  grid' = [moved EXCEPT ![sourceRow + 1][sourceCol + 1] = temp]
    /\ UNCHANGED <<rows, animationMode, currentCell, modalVars>>

\* toggleAnimationMode
toggleAnimationMode ==
    /\ ~modalIsOpen
    /\ animationMode' = ~animationMode
    /\ IF animationMode' /\ rows > AnimationRows
       THEN /\ grid' = SubSeq(grid, 1, AnimationRows)
            /\ rows' = AnimationRows
       ELSE UNCHANGED <<grid, rows>>
    /\ UNCHANGED <<currentCell, modalVars>>

\* resetGrid
resetGrid ==
    /\ ~modalIsOpen
    /\ grid' = [i \in 1..rows |-> EmptyRow]
    /\ UNCHANGED <<rows, animationMode, currentCell, modalVars>>

\* if (animationMode && rows >= 5) return
NeverRefused == FALSE
AddRefused == animationMode /\ rows >= AnimationRows

\* if (rows <= 1) return
RemovesAlways == FALSE
RemoveRefused == rows <= 1

\* addRowTop
addRowTop ==
    /\ ~modalIsOpen
    /\ rows < MaxRows
    /\ IF AddRefused THEN UNCHANGED <<grid, rows>>
       ELSE /\ grid' = <<EmptyRow>> \o grid
            /\ rows' = rows + 1
    /\ UNCHANGED <<animationMode, currentCell, modalVars>>

\* addRowBottom
addRowBottom ==
    /\ ~modalIsOpen
    /\ rows < MaxRows
    /\ IF AddRefused THEN UNCHANGED <<grid, rows>>
       ELSE /\ grid' = Append(grid, EmptyRow)
            /\ rows' = rows + 1
    /\ UNCHANGED <<animationMode, currentCell, modalVars>>

\* removeRowTop
removeRowTop ==
    /\ ~modalIsOpen
    /\ IF RemoveRefused THEN UNCHANGED <<grid, rows>>
       ELSE /\ grid' = Tail(grid)
            /\ rows' = rows - 1
    /\ UNCHANGED <<animationMode, currentCell, modalVars>>

\* removeRowBottom
removeRowBottom ==
    /\ ~modalIsOpen
    /\ IF RemoveRefused THEN UNCHANGED <<grid, rows>>
       ELSE /\ grid' = SubSeq(grid, 1, Len(grid) - 1)
            /\ rows' = rows - 1
    /\ UNCHANGED <<animationMode, currentCell, modalVars>>

-----------------------------------------------------------------------------
(* Specifications.  Each one runs one part of the program and leaves the    *)
(* other parts' variables at rest.                                          *)

\* The catalog client: loads of one catalog gift.
InitFetch ==
    /\ gifts = <<  <<"a","-","b">>  >>
    /\ EmptyFetch
    /\ IdleRelay
    /\ IdleNames
    /\ ClosedModal
    /\ IdleBoot
    /\ IdlePure
    /\ InitialGrid

NextFetch ==
    \/ \E i \in Loads, gift \in Range(gifts) :
          loadModelsAndPatterns(i, gift) /\ UNCHANGED <<relayVars, nameVars, modalVars, bootVars, pureVars, gridVars>>
    \/ \E i \in Loads, r \in Responses : FetchSettles(i, r) /\ UNCHANGED <<relayVars, nameVars, modalVars, bootVars, pureVars, gridVars>>
    \/ \E i \in Loads : BackoffElapsed(i) /\ UNCHANGED <<relayVars, nameVars, modalVars, bootVars, pureVars, gridVars>>
    \/ \E i \in Loads : LoadResumes(i) /\ UNCHANGED <<relayVars, nameVars, modalVars, bootVars, pureVars, gridVars>>

SpecFetch == InitFetch /\ [][NextFetch]_vars

\* One fetchNftDetails invocation.
InitRelay ==
    /\ gifts = <<>>
    /\ EmptyFetch
    /\ IdleRelay
    /\ IdleNames
    /\ ClosedModal
    /\ IdleBoot
    /\ IdlePure
    /\ InitialGrid

NextRelay ==
    \/ fetchNftDetails /\ UNCHANGED <<fetchVars, nameVars, modalVars, bootVars, pureVars, gridVars>>
    \/ \E k \in DOMAIN proxies : \E r \in RelayResponses(k) :
          RelaySettles(k, r) /\ UNCHANGED <<fetchVars, nameVars, modalVars, bootVars, pureVars, gridVars>>

SpecRelay == InitRelay /\ [][NextRelay]_vars

\* /names delivers the catalog as name -> id or, like /ids, as id -> name.
InitNames ==
    /\ \E catalog \in Catalogs :
          /\ namesData \in {catalog, IdToName(catalog)}
          /\ idsData = IdToName(catalog)
    /\ nameToId = <<>>
    /\ giftIds = <<>>
    /\ loading = TRUE
    /\ lookedUp = NoLookup
    /\ gifts = <<>>
    /\ EmptyFetch
    /\ IdleRelay
    /\ ClosedModal
    /\ IdleBoot
    /\ IdlePure
    /\ InitialGrid

\* The gifts looked up: every variant of every catalog name.
Queries == UNION {Range(IndexVariants(n)) : n \in CatalogNames}

NextNames ==
    \/ loadInitialData /\ UNCHANGED <<fetchVars, relayVars, modalVars, bootVars, pureVars, gridVars>>
    \/ \E gift \in Queries : getGiftImageUrl(gift) /\ UNCHANGED <<fetchVars, relayVars, modalVars, bootVars, pureVars, gridVars>>

SpecNames == InitNames /\ [][NextNames]_vars

\* The cell modal: user events on the modal, the catalog loads they start
\* and the page fetches they wait for.
CatalogGifts == << <<"A", " ", "B">>, <<"C">> >>
Cells == {EmptyCell, Cell(<<"C">>, "m1", CatalogBackdrops[2], "p1", NullTotal)}
LinkTexts == { <<"t", ".", "m", "e", "/", "n", "f", "t", "/", "a", "B", "-", "7">>,
               <<"t", ".", "m", "e", "/", "n", "f", "t", "/", "a", "B", "-", "x">>,
               <<"t", ".", "m", "e", "/", "a", "B">> }
\* The catalog API answers every request of this specification (its failures
\* are the subject of SpecFetch).
CatalogReplies == {[kind |-> "ok", body |-> "[{\"name\":\"m1\"}]"]}

InitModal ==
    /\ gifts = CatalogGifts
    /\ backdrops = CatalogBackdrops
    /\ boot = IdleBootCall
    /\ EmptyFetch
    /\ IdleRelay
    /\ IdleNames
    /\ ClosedModal
    /\ IdlePure
    /\ InitialGrid

NextModal ==
    \/ \E cell \in Cells : openModal(cell) /\ UNCHANGED <<relayVars, nameVars, bootVars, pureVars, gridVars>>
    \/ closeModal /\ UNCHANGED <<relayVars, nameVars, bootVars, pureVars, gridVars>>
    \/ \E newGift \in Range(gifts) \cup {<<>>} :
          handleGiftChange(newGift) /\ UNCHANGED <<relayVars, nameVars, bootVars, pureVars, gridVars>>
    \/ \E text \in LinkTexts : setLink(text) /\ UNCHANGED <<relayVars, nameVars, bootVars, pureVars, gridVars>>
    \/ handleLink /\ UNCHANGED <<relayVars, nameVars, bootVars, pureVars, gridVars>>
    \/ \E t \in Pages : LinkResumes(t) /\ UNCHANGED <<relayVars, nameVars, bootVars, pureVars, gridVars>>
    \/ \E newModel \in {"", "m1"} : onModelChange(newModel) /\ UNCHANGED <<relayVars, nameVars, bootVars, pureVars, gridVars>>
    \/ \E t \in Pages, d \in PageResults : DetailsArrive(t, d) /\ UNCHANGED <<relayVars, nameVars, bootVars, pureVars, gridVars>>
    \/ \E i \in Loads, r \in CatalogReplies :
          FetchSettles(i, r) /\ UNCHANGED <<relayVars, nameVars, modalVars, bootVars, pureVars, gridVars>>
    \/ \E i \in Loads : LoadResumes(i) /\ UNCHANGED <<relayVars, nameVars, modalVars, bootVars, pureVars, gridVars>>

SpecModal == InitModal /\ [][NextModal]_vars

\* The backdrop match on every list and label.
InitBackdrop ==
    /\ backdrops \in BackdropLists
    /\ arg \in BackdropLabels
    /\ result = NoResult
    /\ boot = IdleBootCall
    /\ gifts = <<>>
    /\ EmptyFetch
    /\ IdleRelay
    /\ IdleNames
    /\ ClosedModal
    /\ InitialGrid

NextBackdrop ==
    findBackdrop /\ UNCHANGED <<fetchVars, relayVars, nameVars, modalVars, gridVars>>

SpecBackdrop == InitBackdrop /\ [][NextBackdrop]_vars

\* One cell being filled from a link: the modal is open on an empty cell with
\* a text typed into the link input; the user presses the button and may
\* select gifts while the resolution runs.  Opening the modal is the one
\* event counted so far.
InitLink ==
    /\ gifts = CatalogGifts
    /\ backdrops = CatalogBackdrops
    /\ boot = IdleBootCall
    /\ EmptyFetch
    /\ IdleRelay
    /\ IdleNames
    /\ IdlePure
    /\ modalIsOpen = TRUE
    /\ \E text \in LinkTexts : modal = [InitialModal EXCEPT !.link = text]
    /\ page = [t \in Pages |-> IdlePage]
    /\ clicks = 1
    /\ InitialGrid

NextLink ==
    \/ handleLink /\ UNCHANGED <<relayVars, nameVars, bootVars, pureVars, gridVars>>
    \/ \E newGift \in Range(gifts) \cup {<<>>} :
          handleGiftChange(newGift) /\ UNCHANGED <<relayVars, nameVars, bootVars, pureVars, gridVars>>
    \/ \E t \in Pages : LinkResumes(t) /\ UNCHANGED <<relayVars, nameVars, bootVars, pureVars, gridVars>>
    \/ \E t \in Pages, d \in PageResults :
          DetailsArrive(t, d) /\ UNCHANGED <<relayVars, nameVars, bootVars, pureVars, gridVars>>
    \/ \E i \in Loads, r \in CatalogReplies :
          FetchSettles(i, r) /\ UNCHANGED <<relayVars, nameVars, modalVars, bootVars, pureVars, gridVars>>
    \/ \E i \in Loads : LoadResumes(i)
          /\ UNCHANGED <<relayVars, nameVars, modalVars, bootVars, pureVars, gridVars>>

SpecLink == InitLink /\ [][NextLink]_vars

\* Link resolutions to their end: the modal is open with a text in the link
\* input and the user presses the button, again while a resolution runs.
\* A link resolution whose try block raises.  fetchNftDetails catches every
\* error of its own and returns null, so the one statement of the try block
\* that can raise is backdrops.find: b.name.toLowerCase() on an entry of the
\* /backdrops payload that has no name.
Nameless == JsVal("object", "backdrop", <<"<undefined>">>)

\* backdrops.find reaches an entry without a name before any entry matches.
FindRaises(found) ==
    \E i \in DOMAIN backdrops :
        /\ backdrops[i] = Nameless
        /\ \A j \in 1..(i - 1) :
              backdrops[j] # Nameless /\ ~BackdropMatches(backdrops[j], found)

\* The same without the finally block.
LinkRaisedNoFinally(m, name, d) ==
    [m EXCEPT !.totalIssued = IF d.totalIssued # NullTotal THEN d.totalIssued ELSE @,
              !.model = IF d.model # "" THEN d.model ELSE @,
              !.pattern = IF d.pattern # "" THEN d.pattern ELSE @,
              !.parseStatus = <<StatusPart("error", name, "")>>]
\* handleLink after await fetchNftDetails when backdrops.find raises: the
\* setters before it have run, the catch block writes the status and the
\* finally block clears isParsingLink.
LinkRaised(m, name, d) ==
    [m EXCEPT !.totalIssued = IF d.totalIssued # NullTotal THEN d.totalIssued ELSE @,
              !.model = IF d.model # "" THEN d.model ELSE @,
              !.pattern = IF d.pattern # "" THEN d.pattern ELSE @,
              !.parseStatus = <<StatusPart("error", name, "")>>,
              !.isParsingLink = FALSE]

\* fetchNftDetails returns d to handleLink waiting in t and the try block raises.
Raises(t, d) ==
    /\ page[t].kind = "link"
    /\ ~d.isNull
    /\ d.backdrop # <<>>
    /\ FindRaises(d.backdrop)
DetailsRaise(t, d) ==
    /\ page[t].pc = "req"
    /\ Raises(t, d)
    /\ modal' = LinkRaised(modal, page[t].gift, d)
    /\ page' = [page EXCEPT ![t] = IdlePage]
    /\ UNCHANGED <<modalIsOpen, clicks, fetchVars>>

InitResolve ==
    /\ gifts = CatalogGifts
    /\ backdrops \in {CatalogBackdrops, <<Nameless>> \o CatalogBackdrops}
    /\ boot = IdleBootCall
    /\ EmptyFetch
    /\ IdleRelay
    /\ IdleNames
    /\ IdlePure
    /\ modalIsOpen = TRUE
    /\ \E text \in LinkTexts : modal = [InitialModal EXCEPT !.link = text]
    /\ page = [t \in Pages |-> IdlePage]
    /\ clicks = 1
    /\ InitialGrid

\* The rest of the program while the modal is open.
ResolveRest == UNCHANGED <<relayVars, nameVars, bootVars, pureVars, gridVars>>
LoadRest == UNCHANGED <<relayVars, nameVars, modalVars, bootVars, pureVars, gridVars>>

PageSettles(t) ==
    \/ \E d \in PageResults : ~Raises(t, d) /\ DetailsArrive(t, d) /\ ResolveRest
    \/ \E d \in PageResults : DetailsRaise(t, d) /\ ResolveRest

NextResolve ==
    \/ handleLink /\ ResolveRest
    \/ \E t \in Pages : LinkResumes(t) /\ ResolveRest
    \/ \E t \in Pages : PageSettles(t)
    \/ \E i \in Loads, r \in CatalogReplies : FetchSettles(i, r) /\ LoadRest
    \/ \E i \in Loads : LoadResumes(i) /\ LoadRest

\* Every network request settles and every continuation runs.
SpecResolve ==
    /\ InitResolve
    /\ [][NextResolve]_vars
    /\ \A t \in Pages : WF_vars(LinkResumes(t) /\ ResolveRest)
    /\ \A t \in Pages : WF_vars(PageSettles(t))
    /\ \A i \in Loads : WF_vars(\E r \in CatalogReplies : FetchSettles(i, r) /\ LoadRest)
    /\ \A i \in Loads : WF_vars(LoadResumes(i) /\ LoadRest)

\* Start-up: loadInitialData runs once, in a new session or after a reload
\* that finds /names cached.
InitBoot ==
    /\ gifts = <<>>
    /\ backdrops = <<>>
    /\ boot = IdleBootCall
    /\ sessionStorage \in {<<>>, setItem(<<>>, CacheKey(BootEndpoint("names")), "null"),
                           setItem(<<>>, CacheKey(BootEndpoint("names")), "{\"A a\":\"1\"}")}
    /\ modelsCache = <<>>
    /\ patternsCache = <<>>
    /\ models = Arr(<<>>)
    /\ patterns = Arr(<<>>)
    /\ load = [i \in Loads |-> IdleLoad]
    /\ succeeded = {}
    /\ storedVal = <<>>
    /\ storeSrc = <<>>
    /\ modelsSrc = <<>>
    /\ patternsSrc = <<>>
    /\ namesData = <<>>
    /\ idsData = <<>>
    /\ nameToId = <<>>
    /\ giftIds = <<>>
    /\ loading = TRUE
    /\ lookedUp = NoLookup
    /\ IdleRelay
    /\ ClosedModal
    /\ IdlePure
    /\ InitialGrid

\* The rest of the program is not running during start-up.
BootRest == UNCHANGED <<loadVars, relayVars, modalVars, pureVars, gridVars>>

NextBoot ==
    \/ loadInitialDataCalled /\ BootRest
    \/ (\E r \in BootResponses : BootFetchSettles(r)) /\ BootRest
    \/ BootBackoffElapsed /\ BootRest
    \/ BootResumes /\ BootRest

SpecBoot == InitBoot /\ [][NextBoot]_vars

\* Every request settles, every timer fires and every continuation runs.
SpecBootFair ==
    /\ SpecBoot
    /\ WF_vars(loadInitialDataCalled /\ BootRest)
    /\ WF_vars((\E r \in BootResponses : BootFetchSettles(r)) /\ BootRest)
    /\ WF_vars(BootBackoffElapsed /\ BootRest)
    /\ WF_vars(BootResumes /\ BootRest)

\* The extractor is given a page text.
InitParse ==
    /\ arg \in PageTexts
    /\ result = EmptyExtract
    /\ gifts = <<>>
    /\ EmptyFetch
    /\ IdleRelay
    /\ IdleNames
    /\ ClosedModal
    /\ IdleBoot
    /\ InitialGrid

NextParse ==
    \/ ParseLine /\ UNCHANGED <<fetchVars, relayVars, nameVars, modalVars, gridVars>>
    \/ ParseReturns /\ UNCHANGED <<fetchVars, relayVars, nameVars, modalVars, gridVars>>

SpecParse == InitParse /\ [][NextParse]_vars

\* parseLink on texts that hold a link.
InitParseLink ==
    /\ arg \in LinkInputs
    /\ result = NoResult
    /\ gifts = <<>>
    /\ EmptyFetch
    /\ IdleRelay
    /\ IdleNames
    /\ ClosedModal
    /\ IdleBoot
    /\ InitialGrid

NextParseLink ==
    parseLinkCalled /\ UNCHANGED <<fetchVars, relayVars, nameVars, modalVars, gridVars>>

SpecParseLink == InitParseLink /\ [][NextParseLink]_vars

\* The first-party relay: one request.
InitHandler ==
    /\ arg \in Requests
    /\ result = IdleHandler
    /\ gifts = <<>>
    /\ EmptyFetch
    /\ IdleRelay
    /\ IdleNames
    /\ ClosedModal
    /\ IdleBoot
    /\ InitialGrid

NextHandler ==
    \/ handler /\ UNCHANGED <<fetchVars, relayVars, nameVars, modalVars, gridVars>>
    \/ (\E r \in UpstreamResponses : UpstreamSettles(r))
          /\ UNCHANGED <<fetchVars, relayVars, nameVars, modalVars, gridVars>>

SpecHandler == InitHandler /\ [][NextHandler]_vars

\* The grid: the row buttons, the animation toggle, the reset button, drags
\* and the saving of cells.
InitGrid ==
    /\ InitialGrid
    /\ gifts = <<>>
    /\ EmptyFetch
    /\ IdleRelay
    /\ IdleNames
    /\ ClosedModal
    /\ IdleBoot
    /\ IdlePure

GridRest == UNCHANGED <<fetchVars, relayVars, nameVars, bootVars, pureVars>>

NextGrid ==
    \/ (\E row \in 0..(Len(grid) - 1), col \in 0..2 : openModalAt(row, col)) /\ GridRest
    \/ closeModalUnsaved /\ GridRest
    \/ (\E cellData \in SavedCells : saveCell(cellData)) /\ GridRest
    \/ (\E d \in Drags : handleDragEnd(d[1], d[2])) /\ GridRest
    \/ toggleAnimationMode /\ GridRest
    \/ resetGrid /\ GridRest
    \/ addRowTop /\ GridRest
    \/ addRowBottom /\ GridRest
    \/ removeRowTop /\ GridRest
    \/ removeRowBottom /\ GridRest

SpecGrid == InitGrid /\ [][NextGrid]_vars

\* The catalog client with two gifts whose endpoints differ in one character
\* that is not a letter or a digit; the catalog answers every request.
InitCollide ==
    /\ gifts = << <<"a", "-", "b">>, <<"a", "_", "b">> >>
    /\ EmptyFetch
    /\ IdleRelay
    /\ IdleNames
    /\ ClosedModal
    /\ IdleBoot
    /\ IdlePure
    /\ InitialGrid

NextCollide ==
    \/ \E i \in Loads, gift \in Range(gifts) :
          loadModelsAndPatterns(i, gift) /\ UNCHANGED <<relayVars, nameVars, modalVars, bootVars, pureVars, gridVars>>
    \/ \E i \in Loads, r \in CatalogReplies :
          FetchSettles(i, r) /\ UNCHANGED <<relayVars, nameVars, modalVars, bootVars, pureVars, gridVars>>
    \/ \E i \in Loads : LoadResumes(i) /\ UNCHANGED <<relayVars, nameVars, modalVars, bootVars, pureVars, gridVars>>

SpecCollide == InitCollide /\ [][NextCollide]_vars

-----------------------------------------------------------------------------
(* Properties of the catalog client *)

\* A request is issued by invocation i in this step.
IssuesRequest(i) ==
    /\ load'[i].pc = "req"
    /\ load[i].pc # "req"

\* C1: once a request to an endpoint has succeeded and was written to the
\* session cache, no further network request is issued for that endpoint,
\* not even by a call that was already inside its retry loop.
C1_NoRequestAfterSuccess ==
    [][\A i \in Loads :
          IssuesRequest(i)
              => EndpointOf(load'[i].stage, load'[i].gift) \notin succeeded]_vars

\* C3: when the models list of a gift fell back to the empty list and the
\* endpoint is still not in the session cache, a later loadModelsAndPatterns
\* of that gift requests the models from the network again.
C3_RefetchAfterFallback ==
    [][\A i \in Loads :
          (/\ load[i].pc = "idle"
           /\ load'[i].pc # "idle"
           /\ load'[i].gift \in DOMAIN modelsSrc
           /\ modelsSrc[load'[i].gift] = "fallback"
           /\ ~CacheHit(getItem(sessionStorage,
                                CacheKey(ModelsEndpoint(load'[i].gift)))))
              => (load'[i].stage = "models" /\ load'[i].pc = "req")]_vars

\* C4: every entry of the session store holds a payload that came from an
\* HTTP-ok, JSON-parseable response (directly or through the session cache);
\* the fallback value is never written.
C4_StoreHoldsOnlyResponses ==
    \A k \in DOMAIN sessionStorage : storeSrc[k] \in {"network", "cache"}

\* C7: a safeFetch call whose attempts all fail issues exactly 3 requests,
\* waits 800 ms after the first failure and 1600 ms after the second, does
\* not wait after the third, and returns the fallback value.
C7_ThreeAttemptsThenFallback ==
    \A i \in Loads :
        /\ (load[i].pc = "ret" /\ load[i].ret.src = "fallback")
              => /\ load[i].attempt = 3
                 /\ load[i].delays = <<800, 1600>>
                 /\ load[i].ret.val = Arr(<<>>)
        /\ load[i].pc = "backoff"
              => /\ load[i].attempt < 3
                 /\ Len(load[i].delays) = load[i].attempt
        /\ load[i].pc = "req"
              => /\ load[i].attempt \in 1..3
                 /\ Len(load[i].delays) = load[i].attempt - 1

\* C7 witness: a call has failed three times and returned the fallback.
C7_Witness ==
    \E i \in Loads : load[i].pc = "ret" /\ load[i].ret.src = "fallback"

\* C8: a safeFetch call that starts with the endpoint's key in the session
\* cache issues no request and returns the value the storing call returned.
C8_CacheHitReturnsStoredValue ==
    \A i \in Loads :
        (load[i].pc = "ret" /\ load[i].ret.src = "cache")
            => /\ load[i].attempt = 0
               /\ load[i].ret.val
                     = storedVal[CacheKey(EndpointOf(load[i].stage, load[i].gift))]

-----------------------------------------------------------------------------
(* Properties of the relay chain *)

\* The length the check of relay k's response measures, 0 when there is none.
MeasuredLen(k, r) == IF r.kind = "ok" THEN Unwrap(k, r.body).len ELSE 0

\* Relay k threw, answered with a non-success status, or its unwrapped body
\* is not longer than 100 characters.
Rejected(k, r) == r.kind \in {"error", "status"} \/ MeasuredLen(k, r) <= 100

\* C2: if every relay failed or was rejected by the length check,
\* fetchNftDetails returns null and the extractor is never given a text.
C2_AllRejectedGivesNull ==
    (relayPc = "done" /\ \A k \in DOMAIN answers : Rejected(k, answers[k]))
        => (details = NullDetails /\ parsedText = NoText)

\* C6: if relay k is the first with a success status and an unwrapped body
\* longer than the minimum, the extractor is given relay k's text and no relay
\* after k is requested; a relay is requested only when every relay before it
\* failed or was rejected.
C6_FirstAcceptedRelayWins ==
    /\ \A k \in DOMAIN answers :
          (~Rejected(k, answers[k]) /\ \A j \in 1..(k-1) : Rejected(j, answers[j]))
              => /\ relayPc = "done"
                 /\ parsedText.by = k
                 /\ parsedText.len = MeasuredLen(k, answers[k])
                 /\ details = [kind |-> "details", text |-> parsedText]
                 /\ requested = [j \in 1..k |-> j]
    /\ \A n \in DOMAIN requested :
          /\ requested[n] = n
          /\ \A j \in 1..(n-1) : j \in DOMAIN answers /\ Rejected(j, answers[j])

\* C6 witness: the third relay was the first accepted one, after a body that
\* was too short and a failure.
C6_Witness ==
    /\ relayPc = "done"
    /\ Len(answers) = 3
    /\ answers[1].kind = "ok"
    /\ answers[2].kind = "error"
    /\ ~Rejected(3, answers[3])

\* C12: the relays are requested one at a time in list order: the requests
\* issued are relays 1, 2, ... of the five-entry list, a request is
\* outstanding exactly while the invocation waits, each request is issued
\* only when all earlier ones have settled, and at most 5 are issued.
C12_RelaysOneAtATime ==
    /\ Len(requested) <= 5
    /\ requested = [i \in 1..Len(requested) |-> i]
    /\ \A i \in DOMAIN requested :
          proxies[requested[i]] =
              << "/api/proxy?url=",
                 "https://api.codetabs.com/v1/proxy?quest=",
                 "https://corsproxy.io/?",
                 "https://api.allorigins.win/get?url=",
                 "https://api.allorigins.win/raw?url=" >>[i]
    /\ Len(requested) = Len(answers) + (IF relayPc = "req" THEN 1 ELSE 0)

\* All five relays have been requested, one after the other.
C12_Witness ==
    /\ relayPc = "done"
    /\ Len(requested) = 5
    /\ Len(answers) = 5

\* JSON.parse(text) returns a value.
ValidJson(body) == body.env # "none"

\* json.contents of an envelope.
ContentsOf(k, body) ==
    IF body.env = "text" THEN Text(k, "contents", body.clen) ELSE NullHtml

\* The relay that answered last, and its answer.
LastRelay == Len(answers)
LastAnswer == answers[Len(answers)]

\* The loop was left by the break after the last answer.
BrokeAfterLast ==
    relayPc = "done" /\ (LastRelay < Len(proxies) \/ Accepts(html))

\* C17: after an ok response html is the contents field of the envelope for
\* the allorigins.win/get relay when the body is valid JSON, and the raw body
\* when it is not or when another relay answered; the minimum-length check
\* measures that text.
C17_EnvelopeUnwrappedBeforeCheck ==
    (answers # <<>> /\ LastAnswer.kind = "ok")
        => /\ html = IF IsAlloriginsGet(proxies[LastRelay]) /\ ValidJson(LastAnswer.body)
                      THEN ContentsOf(LastRelay, LastAnswer.body)
                      ELSE Text(LastRelay, "body", LastAnswer.body.len)
           /\ BrokeAfterLast <=> (html # NullHtml /\ html.len > 100)

\* C17, amended: the raw body is also used when the body of the envelope
\* relay is the JSON value null, for which reading the contents field throws.
C17_RawBodyWhenEnvelopeUnreadable ==
    (answers # <<>> /\ LastAnswer.kind = "ok")
        => /\ html = IF /\ IsAlloriginsGet(proxies[LastRelay])
                         /\ ValidJson(LastAnswer.body)
                         /\ LastAnswer.body.env # "jsonnull"
                      THEN ContentsOf(LastRelay, LastAnswer.body)
                      ELSE Text(LastRelay, "body", LastAnswer.body.len)
           /\ BrokeAfterLast <=> (html # NullHtml /\ html.len > 100)

\* The envelope relay answered with an envelope longer than the minimum whose
\* contents are not: the contents were measured and the next relay was asked.
C17_Witness ==
    /\ Len(answers) = 4
    /\ answers[4].kind = "ok"
    /\ answers[4].body.env = "text"
    /\ answers[4].body.len > 100
    /\ html = Text(4, "contents", 100)
    /\ relayPc = "req"
    /\ relayIdx = 5

-----------------------------------------------------------------------------
(* Properties of the gift identifier index *)

\* The entries of the indexed name -> id object that have the looked-up gift
\* among their six variants.
Holders == {i \in DOMAIN nameToId : lookedUp.gift \in Range(IndexVariants(nameToId[i].k))}

\* C10 as claimed: looking up any of the six variants of a catalog name
\* returns that name's identifier, for every catalog.
C10_EveryVariantResolves ==
    \A i \in Holders : lookedUp.id = nameToId[i].v

\* C10: looking up a variant of a catalog name returns the identifier of the
\* last name of the source that has this variant, which is the name's own
\* identifier whenever no later name shares the variant.
C10_LastHolderWins ==
    Holders # {}
        => lookedUp.id = nameToId[CHOOSE i \in Holders : \A j \in Holders : j <= i].v

\* C10 witness: a variant shared by two names with different identifiers was
\* looked up, and a variant that only one name has was looked up.
C10_Witness ==
    /\ ~loading
    /\ \E i, j \in Holders : i < j /\ nameToId[i].v # nameToId[j].v
    /\ lookedUp.id # NoId

\* What a lookup can return.
LookupResults == CatalogIds \cup {NoId}

\* C18: the index changes only in the step that ends loading, and once a
\* lookup of a gift has returned an identifier (or none), every later lookup
\* of that gift returns the same.
C18_LookupsIdempotent ==
    /\ [][giftIds' # giftIds => (loading /\ ~loading')]_vars
    /\ \A g \in Queries : \A x \in LookupResults :
          [](lookedUp = [gift |-> g, id |-> x]
                => [](lookedUp.gift = g => lookedUp.id = x))

\* The index holds entries and a lookup has found an identifier in it.
C18_Witness ==
    /\ ~loading
    /\ giftIds # <<>>
    /\ lookedUp.gift \in Queries
    /\ lookedUp.id \in CatalogIds

-----------------------------------------------------------------------------
(* Properties of the cell modal *)

\* The values a page fetch can set.
Extracted(m) == <<m.model, m.backdrop, m.pattern, m.totalIssued>>

\* C5: a page fetch that was started for another gift than the one selected
\* when it completes is discarded: its completion changes none of model,
\* backdrop, pattern and totalIssued.
C5_SupersededResultDiscarded ==
    [][\A t \in Pages :
          (/\ page[t].pc = "req"
           /\ page'[t].pc = "idle"
           /\ page[t].gift # modal.gift)
          => Extracted(modal') = Extracted(modal)]_vars

\* C9: a link resolution whose page fetch returned null ends with the gift
\* set to the derived display name and with model, backdrop, pattern and
\* totalIssued unset.
C9_NullPageLeavesNameOnly ==
    [][\A t \in Pages :
          (/\ page[t].pc = "req"
           /\ page[t].kind = "link"
           /\ page'[t].pc = "idle"
           /\ modal'.parseStatus = <<StatusPart("unavailable", page[t].gift, "")>>)
          => /\ modal'.gift = page[t].gift
             /\ Extracted(modal') = <<"", Null, "", NullTotal>>]_vars

\* The accepted shape t.me/nft/<slug>-<digits> occurs in the text.
HasLinkShape(text) ==
    \E p, e \in DOMAIN text :
        /\ p + 9 <= e
        /\ e + 2 <= Len(text)
        /\ SubSeq(text, p, p + 8) = <<"t", ".", "m", "e", "/", "n", "f", "t", "/">>
        /\ \A i \in (p + 9)..e : text[i] # "\n"
        /\ text[e + 1] = "-"
        /\ IsDigit(text[e + 2])

\* C13: handleLink on a text without the accepted shape only sets the status
\* message: no load and no page fetch is started, isParsingLink stays false,
\* and gift, model, backdrop, pattern, totalIssued and the model and pattern
\* lists are unchanged.
C13_MalformedLinkOnlySetsStatus ==
    [][(handleLink /\ ~HasLinkShape(modal.link))
          => /\ modal' = [modal EXCEPT !.parseStatus = <<StatusPart("invalid", <<>>, "")>>]
             /\ ~modal'.isParsingLink
             /\ UNCHANGED <<load, page, models, patterns, sessionStorage,
                            modelsCache, patternsCache, succeeded>>]_vars

\* handleLink has rejected a typed text.
C13_Witness ==
    /\ modal.link # <<>>
    /\ ~HasLinkShape(modal.link)
    /\ modal.parseStatus = <<StatusPart("invalid", <<>>, "")>>

\* C14: a link resolution started with a well-formed link ends with the
\* modal's gift equal to the display name derived from the link.
C14_GiftIsLinkName ==
    [][\A t \in Pages :
          (/\ page[t].pc = "req"
           /\ page[t].kind = "link"
           /\ page'[t].pc = "idle")
          => modal'.gift = page[t].gift]_vars

\* C19: a link resolution sets the model only to the name of a model in the
\* models list loaded from the catalog.
C19_ModelOnlyFromList ==
    [][\A t \in Pages :
          (/\ page[t].pc = "req"
           /\ page[t].kind = "link"
           /\ page'[t].pc = "idle"
           /\ modal'.model # modal.model)
          => modal'.model \in ModelOptions]_vars

-----------------------------------------------------------------------------
(* Properties of the backdrop match *)

\* The list positions whose name equals the label, and those whose name
\* contains the label or is contained in it, ignoring case.
EqualEntries(label) ==
    {i \in DOMAIN backdrops : toLowerCase(backdrops[i].v) = toLowerCase(label)}
ContainingEntries(label) ==
    {i \in DOMAIN backdrops :
        \/ Includes(toLowerCase(backdrops[i].v), toLowerCase(label))
        \/ Includes(toLowerCase(label), toLowerCase(backdrops[i].v))}

\* C11: when some entry equals the label (ignoring case) the selected entry
\* equals the label; otherwise the first entry that contains the label or is
\* contained in it is selected; when no entry qualifies nothing is selected.
C11_EqualityBeforeContainment ==
    result.done =>
        IF EqualEntries(arg) # {}
        THEN Truthy(result.value) /\ toLowerCase(result.value.v) = toLowerCase(arg)
        ELSE IF ContainingEntries(arg) # {}
             THEN result.value =
                      backdrops[CHOOSE i \in ContainingEntries(arg) :
                                   \A j \in ContainingEntries(arg) : i <= j]
             ELSE result.value = Undefined

-----------------------------------------------------------------------------
(* Properties of loadInitialData *)

\* safeFetch returned its fallback for the stage.
FellBack(stage) == stage \in DOMAIN boot.src /\ boot.src[stage] = "fallback"

\* C15: whatever the catalog answers, loadInitialData ends with loading set
\* to false and no exception leaves it; when /names and /ids both fell back
\* the index it stored is empty.
C15_LoadInitialDataCompletes ==
    /\ <>[](boot.pc = "done" /\ ~loading)
    /\ [](boot.pc # "threw")
    /\ []((boot.pc = "done" /\ FellBack("names") /\ FellBack("ids")) => giftIds = <<>>)

\* loadInitialData has ended after /names and /ids both fell back.
C15_Witness ==
    /\ boot.pc = "done"
    /\ ~loading
    /\ FellBack("names")
    /\ FellBack("ids")
    /\ giftIds = <<>>

\* The first value of the /names payload is a string of digits only.
FirstIsDigitString(payload) ==
    /\ payload # <<>>
    /\ IsString(payload[1].v)
    /\ payload[1].v # <<>>
    /\ \A i \in DOMAIN payload[1].v :
          payload[1].v[i] \in {"0", "1", "2", "3", "4", "5", "6", "7", "8", "9"}

\* obj is the inversion of the id -> name payload without its entries whose
\* value is not a string: the keys are the string values, each with the
\* identifier of the last entry holding it.
IsInversionOf(obj, payload) ==
    /\ \A i \in DOMAIN obj :
          \E j \in DOMAIN payload :
             /\ IsString(payload[j].v)
             /\ payload[j].v = obj[i].k
             /\ payload[j].k = obj[i].v
             /\ \A l \in DOMAIN payload : payload[l].v = obj[i].k => l <= j
    /\ \A j \in DOMAIN payload :
          IsString(payload[j].v) => \E i \in DOMAIN obj : obj[i].k = payload[j].v

\* C16: once loadInitialData has ended, the indexed name -> id object is the
\* /names payload and /ids was not requested if the first value of /names is
\* a string of digits; in every other case /ids was requested and the object
\* is its inversion without the entries whose value is not a string.
C16_DetectionRule ==
    boot.pc = "done" =>
        IF FirstIsDigitString(namesData)
        THEN /\ BootEndpoint("ids") \notin Range(boot.called)
             /\ nameToId = namesData
        ELSE /\ BootEndpoint("ids") \in Range(boot.called)
             /\ IsInversionOf(nameToId, idsData)

-----------------------------------------------------------------------------
(* Properties of parseNftPageContent *)

Fields == {"model", "backdrop", "pattern"}

\* The lines that contain a label of the field and match one of the three
\* shapes, and those of them whose captured value is not empty once a
\* trailing percentage is stripped.
MatchingLines(f) ==
    {i \in DOMAIN lines :
        ContainsLabel(lines[i], FieldLabels[f]) /\ Capture(lines[i], FieldLabels[f]) # NoCapture}
ValuedLines(f) ==
    {i \in MatchingLines(f) : Cleaned(Capture(lines[i], FieldLabels[f])) # <<>>}

\* The value the line gives the field.
ValueOf(i, f) == Cleaned(Capture(lines[i], FieldLabels[f]))

\* C20: a field that holds a value is not changed by a later line, and the
\* extracted value of each field is the one of the earliest line that
\* contains the label and matches one of the three shapes (none when no line
\* does).
C20_EarliestMatchingLineWins ==
    /\ [][\A f \in Fields : result[f] # <<>> => result'[f] = result[f]]_vars
    /\ [](result.pc = "done" =>
             \A f \in Fields :
                result[f] = IF MatchingLines(f) = {} THEN <<>>
                            ELSE ValueOf(Least(MatchingLines(f)), f))

\* C20, amended: the extracted value is the one of the earliest such line
\* whose value is not empty; a matching line whose value is empty (nothing
\* but a percentage) leaves the field to the later lines.
C20_EarliestValuedLineWins ==
    /\ [][\A f \in Fields : result[f] # <<>> => result'[f] = result[f]]_vars
    /\ [](result.pc = "done" =>
             \A f \in Fields :
                result[f] = IF ValuedLines(f) = {} THEN <<>>
                            ELSE ValueOf(Least(ValuedLines(f)), f))

\* Two lines give the model different values: the extractor returned the
\* first one.
C20_Witness ==
    /\ result.pc = "done"
    /\ \E i, j \in ValuedLines("model") :
          /\ i < j
          /\ ValueOf(i, "model") # ValueOf(j, "model")
          /\ result.model = ValueOf(i, "model")

-----------------------------------------------------------------------------
(* Properties of the extractor's output *)

\* The record parseNftPageContent returns, as JavaScript values: model,
\* backdrop and pattern are strings ('' when no line set them), totalIssued
\* is null or a number.
Returned ==
    [model       |-> JsVal("string", "", result.model),
     backdrop    |-> JsVal("string", "", result.backdrop),
     pattern     |-> JsVal("string", "", result.pattern),
     totalIssued |-> IF result.totalIssued = NullTotal THEN Null
                     ELSE JsVal("number", "", result.totalIssued)]

\* C21: the extractor applied to the empty text returns a record in which
\* model, backdrop, pattern and totalIssued are all null.
C21_EmptyTextGivesAllNull ==
    (arg = <<>> /\ result.pc = "done") =>
        \A f \in {"model", "backdrop", "pattern", "totalIssued"} : Returned[f].t = "null"

\* The right-hand operands of the X/Y occurrences of a text: after a slash
\* that follows a character of [\d,\s], a run of such characters that ends
\* at the end of a line or before a character of another kind.
Operands(str) ==
    {SubSeq(str, ke[1] + 1, ke[2]) :
        ke \in {x \in (DOMAIN str) \X (DOMAIN str) :
                   /\ x[1] < x[2]
                   /\ str[x[1]] = "/"
                   /\ x[1] > 1 /\ IsCountChar(str[x[1] - 1])
                   /\ \A i \in (x[1] + 1)..x[2] : IsCountChar(str[i])
                   /\ \/ x[2] = Len(str)
                      \/ ~IsCountChar(str[x[2] + 1])
                      \/ str[x[2] + 1] = "\n"}}

\* No line of the text yields a total.
NoLineYields == \A i \in DOMAIN lines : lines[i] = <<>> \/ ~(TotalOf(lines[i]) > 0)

-----------------------------------------------------------------------------
(* Properties of parseLink *)

\* What the character at position i of a slug becomes in the name: a dash
\* becomes a space, an upper-case letter after a lower-case one gets a space
\* before it, and the first character of a word is written in upper case.
NamePiece(slug, i) ==
    IF slug[i] = "-" THEN <<" ">>
    ELSE IF i > 1 /\ IsLower(slug[i - 1]) /\ IsUpper(slug[i]) THEN <<" ", slug[i]>>
    ELSE IF i = 1 \/ slug[i - 1] = "-" THEN <<ToUpperChar(slug[i])>>
    ELSE <<slug[i]>>

RECURSIVE NameUpTo(_, _)
NameUpTo(slug, n) ==
    IF n = 0 THEN <<>> ELSE NameUpTo(slug, n - 1) \o NamePiece(slug, n)

-----------------------------------------------------------------------------
(* Properties of the first-party relay *)

\* The request is a GET whose url parameter is a URL of the host t.me with a
\* path that starts with /nft/, read off the parts the parameter was written
\* from: it has a scheme, its host is t.me in either case, whatever the
\* userinfo before it.
IsTelegramNft(req) ==
    /\ req.method = "GET"
    /\ req.url.given
    /\ req.url.scheme # <<>>
    /\ toLowerCase(req.url.host) = TelegramHost
    /\ startsWith(req.url.path, NftPath)

\* C24: the handler issues an upstream request only for a GET request whose
\* url parameter parses as a URL with hostname t.me and a path starting with
\* /nft/, and the target is https://t.me followed by that path without query
\* and fragment; OPTIONS, other methods, a missing url, an unparseable url
\* and any other host or path are answered with 200, 405, 400, 400 and 403
\* without an upstream request.
C24_UpstreamOnlyForTelegramNft ==
    result.pc # "idle" =>
        /\ result.fetched # <<>> =>
              /\ IsTelegramNft(arg)
              /\ result.fetched =
                    << <<"h", "t", "t", "p", "s", ":", "/", "/", "t", ".", "m", "e">>
                          \o arg.url.path >>
        /\ result.fetched = <<>> =>
              /\ ~IsTelegramNft(arg)
              /\ result.status =
                    CASE arg.method = "OPTIONS" -> 200
                      [] arg.method \notin {"GET", "OPTIONS"} -> 405
                      [] arg.method = "GET" /\ (~arg.url.given \/ UrlText(arg.url) = <<>>) -> 400
                      [] arg.method = "GET" /\ arg.url.given /\ UrlText(arg.url) # <<>>
                            /\ arg.url.scheme = <<>> -> 400
                      [] OTHER -> 403

\* A GET for a t.me NFT page written with upper-case host, userinfo, query
\* and fragment was relayed to https://t.me/nft/a-1 and answered.
C24_Witness ==
    /\ result.pc = "done"
    /\ result.status = 200
    /\ arg.url.host = <<"T", ".", "M", "E">>
    /\ arg.url.userinfo # <<>> /\ arg.url.query # <<>> /\ arg.url.fragment # <<>>
    /\ result.fetched = << <<"h", "t", "t", "p", "s", ":", "/", "/", "t", ".", "m", "e",
                              "/", "n", "f", "t", "/", "a", "-", "1">> >>

-----------------------------------------------------------------------------
(* Properties of the grid *)

\* C25: whenever animation mode is on the grid has at most 5 rows; turning
\* the mode on with more than 5 rows cuts the grid down to its first 5 rows
\* and no row is added at 5 rows while the mode is on.
C25_AnimationModeAtMostFiveRows ==
    /\ [](animationMode => (Len(grid) <= 5 /\ rows <= 5))
    /\ [][(~animationMode /\ animationMode' /\ Len(grid) > 5)
             => grid' = SubSeq(grid, 1, 5)]_vars
    /\ [][(animationMode /\ animationMode' /\ Len(grid) >= 5)
             => Len(grid') <= Len(grid)]_vars

\* Animation mode is on and the grid has 5 rows, the last of them with a
\* saved cell.
C25_Witness ==
    /\ animationMode
    /\ Len(grid) = 5
    /\ \E col \in 1..3 : grid[5][col] # Null

\* C30: the rows counter is the number of rows of the grid, every row has 3
\* cells and there is at least 1 row; handleDragEnd exchanges the two cells
\* it is given and leaves every other cell as it is (a step of handleDragEnd
\* that changes the grid changes both of its cells, so the two cells are
\* looked for among the changed ones).
C30_GridShape ==
    /\ [](/\ rows = Len(grid)
          /\ Len(grid) >= 1
          /\ \A i \in DOMAIN grid : Len(grid[i]) = 3)
    /\ [][(grid' # grid /\ Len(grid') = Len(grid) /\ modalIsOpen' = modalIsOpen) =>
             LET changed == {c \in cellIds : CellAt(grid', c) # CellAt(grid, c)}
             IN  \A active \in changed, over \in changed :
                    (active # over /\ handleDragEnd(active, over)) =>
                       /\ changed = {active, over}
                       /\ CellAt(grid', active) = CellAt(grid, over)
                       /\ CellAt(grid', over) = CellAt(grid, active)]_vars

\* After rows were added and removed, the grid is back at 3 rows and holds a
\* saved cell in another place than the one the modal was opened for.
C30_Witness ==
    /\ ~modalIsOpen
    /\ rows = 3
    /\ currentCell.row \in 0..2
    /\ Filled # {}
    /\ <<currentCell.row + 1, currentCell.col + 1>> \notin Filled
    /\ \E rc \in Filled : rc[2] # currentCell.col + 1

-----------------------------------------------------------------------------
(* Properties of the link resolutions in flight *)

\* The link resolutions that wait for a response of the catalog to their
\* loadModelsAndPatterns call.
AwaitingLists ==
    {t \in Pages : /\ page[t].kind = "link"
                   /\ page[t].pc = "await"
                   /\ load[page[t].load].pc = "req"}

\* C26: at most one link resolution is in flight: while a resolution waits
\* for the model and pattern lists, the button starts no second handleLink.
C26_OneResolutionInFlight ==
    [][\A u \in Pages :
          (page[u].pc = "idle" /\ page'[u].pc = "await" /\ page'[u].kind = "link")
          => AwaitingLists = {}]_vars

-----------------------------------------------------------------------------
(* Properties of the session cache's keys *)

\* C27: two different endpoints never share a session-cache entry: a cache
\* hit for an endpoint returns a payload that was fetched from that
\* endpoint, so that a request to it has succeeded before.
C27_CacheHitIsOwnPayload ==
    \A i \in Loads :
        (load[i].pc = "ret" /\ load[i].ret.src = "cache")
            => EndpointOf(load[i].stage, load[i].gift) \in succeeded

C29_ResolutionEnds ==
    /\ \A t \in Pages :
          (page[t].kind = "link") ~> (page[t].pc = "idle" /\ ~modal.isParsingLink)
    /\ modal.isParsingLink ~> ~modal.isParsingLink

\* A link resolution has ended through its catch block.
C29_Witness ==
    /\ \A t \in Pages : page[t].pc = "idle"
    /\ modal.parseStatus # <<>>
    /\ modal.parseStatus[1].kind = "error"
    /\ ~modal.isParsingLink

====
